---- MODULE Spec2Model ----
(***************************************************************************)
(* Verification model of the axe SDK: the v4a patch engine (package v4a),  *)
(* the in-memory code container (package container), the streaming         *)
(* tool-call classifier and Runner.Run (package axe) and the JSON stream   *)
(* decoder (package json_stream_decoder).                                  *)
(*                                                                         *)
(* Representation choices                                                  *)
(*  - A file content (a Go string) is kept as strings.Split(content,"\n"): *)
(*    a non-empty sequence of lines; "" is <<"">>.                         *)
(*  - A line of patch text is a record [k, t]: k is the literal marker the *)
(*    line starts with ("*** Update File: ", "+", "@@ ", ...) and t is the *)
(*    rest of the line.  k = "" is a line that starts with no marker (the  *)
(*    blank line when t = "").  The line alphabet holds no CR, so norm()   *)
(*    is the identity on it.                                               *)
(*  - Go indices are kept 0-based; At and Slice read Go's s[i], s[i:j].    *)
(***************************************************************************)
EXTENDS Integers, Sequences, FiniteSets, TLC

VARIABLES
    \* the code container
    fileMaps,        \* heap of Go maps: ref -> (path -> content)
    deletedMaps,     \* heap of Go maps: ref -> set of paths
    containers,      \* "c", "c2" -> CodeContainer struct (two map refs) | NilContainer
    last,            \* the last API call and what it returned
    \* a call of getUpdatedFile
    callText,        \* the original text, as lines
    callAction,      \* the PatchAction
    updated,         \* what the call returned
    \* toolCallChecker and the tasks of its ToolCallStreamers
    pc,              \* where toolCallChecker stands
    received,        \* the number of messages sr.Recv() has returned
    toolCallMsgs,    \* history: how many of them had a non-empty ToolCalls list
    msg,             \* the message in hand
    hasToolCalls,
    lastToolCallID,
    streamers,       \* the ToolCallStreamers in order of creation; callStreamer is the last
    Output,          \* r.Output: the strings sent, in the order of sending
    returned,        \* what toolCallChecker returned
    \* one JSONStreamDecoder (package json_stream_decoder) and its input
    object,          \* the object whose JSON text is the input
    jsonInput,       \* the JSON text, byte by byte
    delivered,       \* how many of its bytes were written to the decoder's input
    inputClosed,     \* the input was closed: reads past the written bytes give io.EOF
    dec,             \* the decoder, what it gave to the consumer and what Stream returned
    \* one call of Runner.Run
    runAt,           \* the statement Run stands at
    ctxDone,         \* ctx was cancelled
    rOutput,         \* r.Output: the channel, how often it was closed, what was sent on it
    forwarder,       \* the task of startOutputForwarder
    recorder,        \* the outputRecorder's buffer, as the strings written
    agentExecErr,
    changelog,       \* the changelog of this run
    KeepHistory,     \* the option WithKeepHistory sets
    MinInterval,     \* r.MinInterval, in ticks of the clock
    now,             \* the clock: what time.Now() gives during the call
    History,         \* r.History.Changelogs
    historyFile,     \* the changelogs in the history file
    fileWrites,      \* history: how often the history file was written
    previous,        \* history: the changelogs r.History held when Run was called
    runReturned,     \* what Run returned
    \* calls of FinalizeTool.InvokableRun
    finalizeTool,    \* the tool: whether t.Changelog is set, and the changelog
    finalizeArgs,    \* argumentsInJSON of the last call
    finalizeCalls,   \* history: the number of calls
    finalizeReturned, \* what the last call returned
    \* the file system under the container
    disk,            \* path -> content of the files that exist
    flushedOnce,     \* history: WriteToFiles succeeded while a path was marked deleted
    \* calls of ApplyEditTool.InvokableRun
    applyEditArgs,   \* argumentsInJSON of the last call
    applyEditCalls,  \* history: the number of calls
    applyEditReturned, \* what the last call returned, and what ApplyPatch had returned to it
    \* one call of CliTool.InvokableRun
    cliDef,          \* t.Def: the words of Command and the Env map
    cliEnviron,      \* os.Environ() of the process
    cliArgs,         \* argumentsInJSON, by what json.Unmarshal makes of it
    cliChild,        \* the subprocess: whether it ran, its argv and its environment
    cliReturned,     \* what the call returned
    \* one File element of a CodeInput document
    fileContent,     \* CodeFile.Content
    fileXML,         \* what MarshalXML wrote between <File> and </File>
    fileRead,        \* what a reader of the document got as the element's character data
    \* one call of findContext
    fcLines,         \* the lines of the file
    fcContext,       \* the context lines of the hunk
    fcStart,         \* the index the search starts at
    fcEof,           \* the hunk ended with "*** End of File"
    fcFound,         \* what the call returned: index and fuzz
    \* One run of Parser.parse, loop iteration by loop iteration
    parser,          \* the Parser struct: Lines, CurrentFiles, Index, Actions, Fuzz
    psAt,            \* the loop the parser stands in: "parse", "update", "peek",
                     \* "add", or "returned"
    psErr,           \* the error parse returned, "" for nil
    psUpd,           \* the locals of parseUpdateFile
    psPeek,          \* the locals of peekNextSection
    psAdd            \* the locals of parseAddFile

cvars == <<fileMaps, deletedMaps, containers, last>>
uvars == <<callText, callAction, updated>>
svars == <<pc, received, toolCallMsgs, msg, hasToolCalls, lastToolCallID, streamers, Output, returned>>
dvars == <<object, jsonInput, delivered, inputClosed, dec>>
rvars == <<runAt, ctxDone, rOutput, forwarder, recorder, agentExecErr, changelog, KeepHistory,
           MinInterval, now, History, historyFile, fileWrites, previous, runReturned>>
fvars == <<finalizeTool, finalizeArgs, finalizeCalls, finalizeReturned>>
\* what the models of the patch engine, the container, the stream, the
\* decoder and Run leave alone
kvars == <<disk, flushedOnce>>
avars == <<applyEditArgs, applyEditCalls, applyEditReturned>>
evars == <<cliDef, cliEnviron, cliArgs, cliChild, cliReturned>>
xvars == <<fileContent, fileXML, fileRead>>
mvars == <<fcLines, fcContext, fcStart, fcEof, fcFound>>
pvars == <<parser, psAt, psErr, psUpd, psPeek, psAdd>>
ovars == <<fvars, kvars, avars, evars, xvars, mvars, pvars>>
vars == <<cvars, uvars, svars, dvars, rvars, ovars>>

(***************************************************************************)
(* Bounds of the model                                                     *)
(***************************************************************************)
MaxLines == 2    \* lines of a file
MaxChunks == 2   \* chunks of an update action given to getUpdatedFile
MaxMsgs == 2     \* messages of the model's stream

Paths == {"p", "q"}
\* nil values: a nil *string, a CodeContainer that was not made yet
Nil == <<>>
NilContainer == [files |-> 0, deleted |-> 0]
NoFs == [files |-> <<>>, deleted |-> {}]

At(s, i) == s[i + 1]
Slice(s, i, j) == SubSeq(s, i + 1, j)

(***************************************************************************)
(* strings helpers on line texts                                           *)
(***************************************************************************)
rstripSpaces(s) ==
    CASE s = "a " -> "a"
      [] s = " a " -> " a"
      [] s = "b " -> "b"
      [] s = " " -> ""
      [] OTHER -> s

TrimSpace(s) ==
    CASE s \in {"a ", " a", " a "} -> "a"
      [] s \in {"b ", " b"} -> "b"
      [] s = " " -> ""
      [] OTHER -> s

slicesEqual(a, b) == a = b

slicesEqualRStrip(a, b) ==
    /\ Len(a) = Len(b)
    /\ \A i \in 1..Len(a) : rstripSpaces(a[i]) = rstripSpaces(b[i])

slicesEqualStrip(a, b) ==
    /\ Len(a) = Len(b)
    /\ \A i \in 1..Len(a) : TrimSpace(a[i]) = TrimSpace(b[i])

sliceContains(ss, s) == \E i \in 1..Len(ss) : ss[i] = s

sliceContainsTrim(ss, s) == \E i \in 1..Len(ss) : TrimSpace(ss[i]) = TrimSpace(s)

\* strings.Join(lines, "\n") in the line representation of a content
Join(lines) == IF lines = <<>> THEN <<"">> ELSE lines

(***************************************************************************)
(* Patch text lines                                                        *)
(***************************************************************************)
BeginPatch == "*** Begin Patch"
EndPatch == "*** End Patch"
UpdateFile == "*** Update File: "
DeleteFile == "*** Delete File: "
AddFile == "*** Add File: "
MoveTo == "*** Move to: "
EndOfFile == "*** End of File"
Stars == "***"
AtDef == "@@ "
AtOnly == "@@"

StarKinds == {BeginPatch, EndPatch, UpdateFile, DeleteFile, AddFile, MoveTo, EndOfFile, Stars}

L(k, t) == [k |-> k, t |-> t]

\* strings.HasPrefix(norm(line), pre) for the prefixes the parser asks about
HasPrefix(line, pre) ==
    CASE pre = "***" -> line.k \in StarKinds
      [] pre = "@@" -> line.k \in {AtDef, AtOnly}
      [] pre = "*** Update File:" -> line.k = UpdateFile
      [] pre = "*** Delete File:" -> line.k = DeleteFile
      [] pre = "*** Add File:" -> line.k = AddFile
      [] OTHER -> line.k = pre

\* norm(line) == lit
IsExactly(line, lit) == line.k = lit /\ line.t = ""

(***************************************************************************)
(* Parser: scanning helpers                                                *)
(***************************************************************************)
ActionAdd == "add"
ActionDelete == "delete"
ActionUpdate == "update"
ModeKeep == "keep"
ModeAdd == "add"
ModeDelete == "delete"

Chunk(origIndex, delLines, insLines) ==
    [OrigIndex |-> origIndex, DelLines |-> delLines, InsLines |-> insLines]

MinOf(S) == CHOOSE x \in S : \A y \in S : x <= y

isDone(lines, index, prefixes) ==
    \/ index >= Len(lines)
    \/ \E pre \in prefixes : HasPrefix(At(lines, index), pre)

(***************************************************************************)
(* peekNextSection: reads one hunk body starting at index                  *)
(***************************************************************************)
PeekBreaks == {"@@", EndPatch, "*** Update File:", "*** Delete File:", "*** Add File:", EndOfFile}

\* the mode the first character of a hunk line selects; a blank line counts
\* as " "
lineMode(raw) ==
    CASE raw.k = "+" -> ModeAdd
      [] raw.k = "-" -> ModeDelete
      [] raw.k = " " \/ (raw.k = "" /\ raw.t = "") -> ModeKeep
      [] OTHER -> "invalid"

\* the chunk list with the pending deletions and insertions, if any, added
withPending(st) ==
    IF st.ins # <<>> \/ st.del # <<>>
    THEN Append(st.chunks, Chunk(Len(st.old) - Len(st.del), st.del, st.ins))
    ELSE st.chunks

\* the switch back to keep mode emits the pending chunk
flushed(st, mode) ==
    IF mode = ModeKeep /\ st.mode # mode
    THEN [st EXCEPT !.chunks = withPending(st), !.del = <<>>, !.ins = <<>>]
    ELSE st

taken(st, mode, text) ==
    [index |-> st.index + 1,
     mode |-> mode,
     chunks |-> st.chunks,
     old |-> IF mode \in {ModeDelete, ModeKeep} THEN Append(st.old, text) ELSE st.old,
     del |-> IF mode = ModeDelete THEN Append(st.del, text) ELSE st.del,
     ins |-> IF mode = ModeAdd THEN Append(st.ins, text) ELSE st.ins,
     err |-> ""]

RECURSIVE peekLoop(_, _)
RECURSIVE peekLine(_, _, _)
peekLine(lines, st, raw) ==
    IF (\E pre \in PeekBreaks : HasPrefix(raw, pre)) \/ IsExactly(raw, Stars) THEN st
    ELSE IF HasPrefix(raw, "***") \/ lineMode(raw) = "invalid" THEN [st EXCEPT !.err = "Invalid Line"]
    ELSE peekLoop(lines, taken(flushed(st, lineMode(raw)), lineMode(raw), raw.t))

peekLoop(lines, st) ==
    IF st.index >= Len(lines) THEN st ELSE peekLine(lines, st, At(lines, st.index))

peekFail(message) == [err |-> message, old |-> <<>>, chunks |-> <<>>, index |-> 0, eof |-> FALSE]

\* a peekNextSection that returns a section it read nothing of
peekResult_emptySection(lines, index, st) ==
    IF st.err # "" THEN peekFail(st.err)
    ELSE IF st.index < Len(lines) /\ IsExactly(At(lines, st.index), EndOfFile)
    THEN [err |-> "", old |-> st.old, chunks |-> withPending(st), index |-> st.index + 1, eof |-> TRUE]
    ELSE [err |-> "", old |-> st.old, chunks |-> withPending(st), index |-> st.index, eof |-> FALSE]

\* what peekNextSection returns once its loop is left with the locals st
peekResult(lines, index, st) ==
    IF st.err # "" THEN peekFail(st.err)
    ELSE IF st.index < Len(lines) /\ IsExactly(At(lines, st.index), EndOfFile)
    THEN [err |-> "", old |-> st.old, chunks |-> withPending(st), index |-> st.index + 1, eof |-> TRUE]
    ELSE IF st.index = index THEN peekFail("Nothing in this section")
    ELSE [err |-> "", old |-> st.old, chunks |-> withPending(st), index |-> st.index, eof |-> FALSE]

peekNextSection(lines, index) ==
    peekResult(lines, index,
               peekLoop(lines, [index |-> index, mode |-> ModeKeep, chunks |-> <<>>,
                                old |-> <<>>, del |-> <<>>, ins |-> <<>>, err |-> ""]))

(***************************************************************************)
(* Context matcher                                                         *)
(***************************************************************************)
FuzzRStrip == 1
FuzzStrip == 100
FuzzEOF == 10000

MatchesAt(lines, context, start, eq(_, _)) ==
    {i \in start..(Len(lines) - Len(context)) : eq(Slice(lines, i, i + Len(context)), context)}

\* a matcher that tries the right-trimmed pass before the strict one
findContextCore_looseFirst(lines, context, start) ==
    IF Len(context) = 0 THEN [idx |-> start, fuzz |-> 0]
    ELSE
      LET strict == MatchesAt(lines, context, start, slicesEqual)
          rstrip == MatchesAt(lines, context, start, slicesEqualRStrip)
          strip == MatchesAt(lines, context, start, slicesEqualStrip)
      IN IF rstrip # {} THEN [idx |-> MinOf(rstrip), fuzz |-> IF MinOf(rstrip) \in strict THEN 0 ELSE FuzzRStrip]
         ELSE IF strip # {} THEN [idx |-> MinOf(strip), fuzz |-> FuzzStrip]
         ELSE [idx |-> -1, fuzz |-> 0]

findContextCore(lines, context, start) ==
    IF Len(context) = 0 THEN [idx |-> start, fuzz |-> 0]
    ELSE
      LET strict == MatchesAt(lines, context, start, slicesEqual)
          rstrip == MatchesAt(lines, context, start, slicesEqualRStrip)
          strip == MatchesAt(lines, context, start, slicesEqualStrip)
      IN IF strict # {} THEN [idx |-> MinOf(strict), fuzz |-> 0]
         ELSE IF rstrip # {} THEN [idx |-> MinOf(rstrip), fuzz |-> FuzzRStrip]
         ELSE IF strip # {} THEN [idx |-> MinOf(strip), fuzz |-> FuzzStrip]
         ELSE [idx |-> -1, fuzz |-> 0]

\* a matcher whose fallback search adds nothing to the fuzz
findContext_noPenalty(lines, context, start, eof) ==
    IF eof THEN
      LET pos == IF Len(lines) - Len(context) < 0 THEN 0 ELSE Len(lines) - Len(context)
          tail == findContextCore(lines, context, pos)
          any == findContextCore(lines, context, start)
      IN IF tail.idx # -1 THEN tail
         ELSE IF any.idx # -1 THEN any
         ELSE [idx |-> -1, fuzz |-> 0]
    ELSE findContextCore(lines, context, start)

findContext(lines, context, start, eof) ==
    IF eof THEN
      LET pos == IF Len(lines) - Len(context) < 0 THEN 0 ELSE Len(lines) - Len(context)
          tail == findContextCore(lines, context, pos)
          any == findContextCore(lines, context, start)
      IN IF tail.idx # -1 THEN tail
         ELSE IF any.idx # -1 THEN [idx |-> any.idx, fuzz |-> any.fuzz + FuzzEOF]
         ELSE [idx |-> -1, fuzz |-> 0]
    ELSE findContextCore(lines, context, start)

(***************************************************************************)
(* Section parsers                                                         *)
(***************************************************************************)
UpdateStops == {EndPatch, "*** Update File:", "*** Delete File:", "*** Add File:", EndOfFile}
AddStops == {EndPatch, "*** Update File:", "*** Delete File:", "*** Add File:"}

\* The "@@ <def>" anchor search of parseUpdateFile: the file index after it
\* and the fuzz it adds.
seekDef(lines, index, defStr) ==
    IF TrimSpace(defStr) = "" THEN [index |-> index, fuzz |-> 0]
    ELSE
      LET pre == Slice(lines, 0, index)
          strict == IF ~sliceContains(pre, defStr)
                    THEN {i \in index..(Len(lines) - 1) : At(lines, i) = defStr}
                    ELSE {}
          loose == IF strict = {} /\ ~sliceContainsTrim(pre, defStr)
                   THEN {i \in index..(Len(lines) - 1) : TrimSpace(At(lines, i)) = TrimSpace(defStr)}
                   ELSE {}
      IN IF strict # {} THEN [index |-> MinOf(strict) + 1, fuzz |-> 0]
         ELSE IF loose # {} THEN [index |-> MinOf(loose) + 1, fuzz |-> 1]
         ELSE [index |-> index, fuzz |-> 0]

shifted(chunks, by) == [i \in 1..Len(chunks) |-> [chunks[i] EXCEPT !.OrigIndex = @ + by]]

RECURSIVE updateLoop(_, _, _)

\* the hunk was read (sec) and its context looked up (ctx)
updateMatched(pl, lines, st, seek, sec, ctx) ==
    IF ctx.idx = -1 THEN [st EXCEPT !.err = "Invalid context"]
    ELSE updateLoop(pl, lines,
           [pIndex |-> sec.index,
            index |-> ctx.idx + Len(sec.old),
            chunks |-> st.chunks \o shifted(sec.chunks, ctx.idx),
            fuzz |-> st.fuzz + seek.fuzz + ctx.fuzz,
            err |-> ""])

updateSection(pl, lines, st, seek, sec) ==
    IF sec.err # "" THEN [st EXCEPT !.err = sec.err]
    ELSE updateMatched(pl, lines, st, seek, sec, findContext(lines, sec.old, seek.index, sec.eof))

\* hdr: what the "@@ <def>" or "@@" line of the hunk gave, and the parser
\* index after it
updateHunk(pl, lines, st, hdr) ==
    IF hdr.defStr = "" /\ hdr.sectionStr = "" /\ st.index # 0
    THEN [st EXCEPT !.err = "Invalid line in update section"]
    ELSE updateSection(pl, lines, st, seekDef(lines, st.index, hdr.defStr),
                       peekNextSection(pl, hdr.pIndex))

hunkHeader(cur, pIndex) ==
    IF HasPrefix(cur, AtDef) THEN [defStr |-> cur.t, sectionStr |-> "", pIndex |-> pIndex + 1]
    ELSE IF IsExactly(cur, AtOnly) THEN [defStr |-> "", sectionStr |-> "@@", pIndex |-> pIndex + 1]
    ELSE [defStr |-> "", sectionStr |-> "", pIndex |-> pIndex]

updateLoop(pl, lines, st) ==
    IF st.err # "" \/ isDone(pl, st.pIndex, UpdateStops) THEN st
    ELSE updateHunk(pl, lines, st, hunkHeader(At(pl, st.pIndex), st.pIndex))

updateResult(st) ==
    [err |-> st.err, pIndex |-> st.pIndex, fuzz |-> st.fuzz,
     action |-> [Type |-> ActionUpdate, NewFile |-> Nil, Chunks |-> st.chunks, MovePath |-> ""]]

\* parseUpdateFile(text) with the parser at pIndex
parseUpdateFile(pl, pIndex, text) ==
    updateResult(updateLoop(pl, text, [pIndex |-> pIndex, index |-> 0, chunks |-> <<>>,
                                       fuzz |-> 0, err |-> ""]))

RECURSIVE addLoop(_, _)
addLoop(pl, st) ==
    IF st.err # "" \/ isDone(pl, st.pIndex, AddStops) THEN st
    ELSE IF ~HasPrefix(At(pl, st.pIndex), "+")
    THEN [st EXCEPT !.err = "Invalid Add File line (missing '+')", !.pIndex = @ + 1]
    ELSE addLoop(pl, [st EXCEPT !.pIndex = @ + 1, !.lines = Append(@, At(pl, st.pIndex).t)])

addResult(st) ==
    [err |-> st.err, pIndex |-> st.pIndex, fuzz |-> 0,
     action |-> [Type |-> ActionAdd, NewFile |-> Join(st.lines), Chunks |-> <<>>, MovePath |-> ""]]

parseAddFile(pl, pIndex) == addResult(addLoop(pl, [pIndex |-> pIndex, lines |-> <<>>, err |-> ""]))

(***************************************************************************)
(* Parser.parse                                                            *)
(***************************************************************************)
MapSet(m, k, v) == [x \in DOMAIN m \cup {k} |-> IF x = k THEN v ELSE m[x]]
MapDel(m, k) == [x \in DOMAIN m \ {k} |-> m[x]]
EmptyMap == <<>>

DeleteAction == [Type |-> ActionDelete, NewFile |-> Nil, Chunks |-> <<>>, MovePath |-> ""]

RECURSIVE parseLoop(_, _, _)

\* the section of the action at path was parsed (r); moveTo is its Move line
parsed(pl, currentFiles, st, path, moveTo, r) ==
    IF r.err # "" THEN [st EXCEPT !.err = r.err]
    ELSE parseLoop(pl, currentFiles,
           [index |-> r.pIndex,
            actions |-> MapSet(st.actions, path, [r.action EXCEPT !.MovePath = moveTo]),
            fuzz |-> st.fuzz + r.fuzz,
            err |-> "",
            done |-> FALSE])

\* mv: the line after the "*** Update File: " header
parseUpdate(pl, currentFiles, st, path, mv) ==
    IF path \notin DOMAIN currentFiles THEN [st EXCEPT !.err = "Update File Error - missing file"]
    ELSE parsed(pl, currentFiles, st, path,
                IF HasPrefix(mv, MoveTo) THEN mv.t ELSE "",
                parseUpdateFile(pl, IF HasPrefix(mv, MoveTo) THEN st.index + 2 ELSE st.index + 1,
                                currentFiles[path]))

parseHeader(pl, currentFiles, st, cl) ==
    IF HasPrefix(cl, UpdateFile) THEN
        IF cl.t \in DOMAIN st.actions THEN [st EXCEPT !.err = "Duplicate update for file"]
        ELSE IF st.index + 1 >= Len(pl)
        THEN [st EXCEPT !.err = "Unexpected end of input while parsing patch"]
        ELSE parseUpdate(pl, currentFiles, st, cl.t, At(pl, st.index + 1))
    ELSE IF HasPrefix(cl, DeleteFile) THEN
        IF cl.t \in DOMAIN st.actions THEN [st EXCEPT !.err = "Duplicate delete for file"]
        ELSE IF cl.t \notin DOMAIN currentFiles
        THEN [st EXCEPT !.err = "Delete File Error - missing file"]
        ELSE parseLoop(pl, currentFiles,
               [st EXCEPT !.index = @ + 1, !.actions = MapSet(@, cl.t, DeleteAction)])
    ELSE IF HasPrefix(cl, AddFile) THEN
        IF cl.t \in DOMAIN st.actions THEN [st EXCEPT !.err = "Duplicate add for file"]
        ELSE IF cl.t \in DOMAIN currentFiles
        THEN [st EXCEPT !.err = "Add File Error - file already exists"]
        ELSE parsed(pl, currentFiles, st, cl.t, "",
                    parseAddFile(pl, st.index + 1))
    ELSE [st EXCEPT !.err = "Unknown line while parsing"]

parseLoop(pl, currentFiles, st) ==
    IF st.err # "" THEN st
    ELSE IF isDone(pl, st.index, {EndPatch})
    THEN IF st.index < Len(pl) /\ HasPrefix(At(pl, st.index), EndPatch)
         THEN [st EXCEPT !.index = @ + 1, !.done = TRUE]
         ELSE [st EXCEPT !.err = "Missing *** End Patch sentinel"]
    ELSE parseHeader(pl, currentFiles, st, At(pl, st.index))

parse(pl, currentFiles) ==
    parseLoop(pl, currentFiles,
              [index |-> 1, actions |-> EmptyMap, fuzz |-> 0, err |-> "", done |-> FALSE])

patchOf(r) ==
    IF r.err # "" THEN [err |-> r.err, actions |-> EmptyMap, fuzz |-> 0]
    ELSE [err |-> "", actions |-> r.actions, fuzz |-> r.fuzz]

textToPatch(pl, orig) ==
    IF \/ Len(pl) < 2
       \/ ~HasPrefix(pl[1], BeginPatch)
       \/ ~IsExactly(pl[Len(pl)], EndPatch)
    THEN [err |-> "Invalid patch text - missing sentinels", actions |-> EmptyMap, fuzz |-> 0]
    ELSE patchOf(parse(pl, orig))

(***************************************************************************)
(* Patch -> Commit                                                         *)
(***************************************************************************)
\* an applier that does not skip the lines a chunk deletes
advance_keepsDeleted(chunk) == chunk.OrigIndex

\* origIndex after a chunk: origIndex = chunk.OrigIndex, then
\* origIndex += len(chunk.DelLines)
advance(chunk) == chunk.OrigIndex + Len(chunk.DelLines)

RECURSIVE chunkLoop(_, _, _)
chunkLoop(origLines, chunks, st) ==
    IF st.err # "" \/ chunks = <<>> THEN st
    ELSE
      LET chunk == Head(chunks) IN
      IF chunk.OrigIndex > Len(origLines)
      THEN [st EXCEPT !.err = "chunk.orig_index exceeds file length"]
      ELSE IF st.origIndex > chunk.OrigIndex
      THEN [st EXCEPT !.err = "overlapping chunks"]
      ELSE chunkLoop(origLines, Tail(chunks),
             [dest |-> st.dest \o Slice(origLines, st.origIndex, chunk.OrigIndex) \o chunk.InsLines,
              origIndex |-> advance(chunk),
              err |-> ""])

\* getUpdatedFile(text, action, path): err, panic (slice bounds out of range
\* in origLines[origIndex:]) or the new content
getUpdatedFile(text, action) ==
    IF action.Type # ActionUpdate
    THEN [err |-> "_get_updated_file called with non-update action", panic |-> FALSE, content |-> <<"">>]
    ELSE
      LET st == chunkLoop(text, action.Chunks, [dest |-> <<>>, origIndex |-> 0, err |-> ""]) IN
      IF st.err # "" THEN [err |-> st.err, panic |-> FALSE, content |-> <<"">>]
      ELSE IF st.origIndex > Len(text)
      THEN [err |-> "", panic |-> TRUE, content |-> <<"">>]
      ELSE [err |-> "", panic |-> FALSE,
            content |-> Join(st.dest \o Slice(text, st.origIndex, Len(text)))]

ContentOf(orig, path) == IF path \in DOMAIN orig THEN orig[path] ELSE <<"">>

\* patchToCommit ranges over the Actions map in one of Go's map iteration
\* orders: the first update that fails decides the outcome
patchToCommit(actions, orig, order) ==
    LET upd(path) == getUpdatedFile(ContentOf(orig, path), actions[path])
        fails(path) == actions[path].Type = ActionUpdate /\ (upd(path).err # "" \/ upd(path).panic)
        bad == {i \in 1..Len(order) : fails(order[i])}
        change(path) ==
            LET a == actions[path] IN
            CASE a.Type = ActionDelete ->
                   [Type |-> ActionDelete, OldContent |-> ContentOf(orig, path), NewContent |-> Nil, MovePath |-> ""]
              [] a.Type = ActionAdd ->
                   [Type |-> ActionAdd, OldContent |-> Nil, NewContent |-> a.NewFile, MovePath |-> ""]
              [] OTHER ->
                   [Type |-> ActionUpdate, OldContent |-> ContentOf(orig, path),
                    NewContent |-> upd(path).content, MovePath |-> a.MovePath]
    IN IF bad # {}
       THEN [err |-> upd(order[MinOf(bad)]).err, panic |-> upd(order[MinOf(bad)]).panic, changes |-> EmptyMap]
       ELSE [err |-> "", panic |-> FALSE, changes |-> [path \in DOMAIN actions |-> change(path)]]

(***************************************************************************)
(* User-facing helpers                                                     *)
(***************************************************************************)
SelectPaths(pl, kind) ==
    LET hits == SelectSeq(pl, LAMBDA l : l.k = kind)
    IN [i \in 1..Len(hits) |-> hits[i].t]

identifyFilesNeeded(pl) == SelectPaths(pl, UpdateFile) \o SelectPaths(pl, DeleteFile)

identifyFilesAdded(pl) == SelectPaths(pl, AddFile)

\* A file system call made by applyCommit
WriteCall(path, content) == [op |-> "Write", path |-> path, content |-> content]
RemoveCall(path) == [op |-> "Remove", path |-> path, content |-> Nil]

\* The calls applyCommit makes for one change
changeCalls(path, change) ==
    CASE change.Type = ActionDelete -> <<RemoveCall(path)>>
      [] change.Type = ActionAdd -> <<WriteCall(path, change.NewContent)>>
      [] OTHER ->
           IF change.MovePath # ""
           THEN <<WriteCall(change.MovePath, change.NewContent), RemoveCall(path)>>
           ELSE <<WriteCall(path, change.NewContent)>>

\* applyCommit ranges over the Changes map: order is one of Go's map
\* iteration orders, a sequence holding each key once
RECURSIVE applyCommit(_, _)
applyCommit(changes, order) ==
    IF order = <<>> THEN <<>>
    ELSE changeCalls(Head(order), changes[Head(order)]) \o applyCommit(changes, Tail(order))

Orders(S) ==
    {o \in [1..Cardinality(S) -> S] : \A i, j \in 1..Cardinality(S) : o[i] = o[j] => i = j}

(***************************************************************************)
(* CodeContainer as a FileSystem: fs is the pair of maps of one container  *)
(***************************************************************************)
ccOpen(fs, path) ==
    IF path \in fs.deleted
    THEN [err |-> "code/container: file was deleted", txt |-> <<"">>]
    ELSE [err |-> "", txt |-> ContentOf(fs.files, path)]

\* Write that forgets to clear the deletion mark
ccWrite_keepsMark(fs, path, content) ==
    [files |-> MapSet(fs.files, path, content), deleted |-> fs.deleted]

ccWrite(fs, path, content) ==
    [files |-> MapSet(fs.files, path, content), deleted |-> fs.deleted \ {path}]

ccRemove(fs, path) ==
    [files |-> MapDel(fs.files, path), deleted |-> fs.deleted \cup {path}]

\* Files(): the live entries, a fresh map
ccFiles(fs) == [k \in DOMAIN fs.files \ fs.deleted |-> fs.files[k]]

\* the loop over c.files of WriteToFiles: every entry of the map is written
writeAll(files, d) ==
    [p \in DOMAIN d \cup DOMAIN files |-> IF p \in DOMAIN files THEN files[p] ELSE d[p]]

\* the loop over c.deleted of WriteToFiles, which takes the paths in the
\* order the map gives them: os.Remove fails on a path that is not there
RECURSIVE removeAll(_, _)
removeAll(order, d) ==
    IF order = <<>> THEN [err |-> "", disk |-> d]
    ELSE IF Head(order) \notin DOMAIN d
         THEN [err |-> "code/container: remove", disk |-> d]
         ELSE removeAll(Tail(order), MapDel(d, Head(order)))

\* CodeContainer.WriteToFiles on the disk d, the deleted paths taken in order
ccWriteToFiles(fs, d, order) == removeAll(order, writeAll(fs.files, d))

RECURSIVE loadFiles(_, _)
loadFiles(paths, fs) ==
    IF paths = <<>> THEN [err |-> "", m |-> EmptyMap]
    ELSE
      LET r == ccOpen(fs, Head(paths)) IN
      IF r.err # "" THEN [err |-> r.err, m |-> EmptyMap]
      ELSE LET rest == loadFiles(Tail(paths), fs) IN
           IF rest.err # "" THEN rest
           ELSE [err |-> "", m |-> MapSet(rest.m, Head(paths), r.txt)]

\* The calls of applyCommit run against the file system; call number failAt
\* (0: none) returns an error, which ends applyCommit
RECURSIVE runCalls(_, _, _, _)
runCalls(fs, calls, n, failAt) ==
    IF calls = <<>> THEN [err |-> "", fs |-> fs, made |-> n - 1]
    ELSE IF n = failAt THEN [err |-> "failed to apply commit", fs |-> fs, made |-> n - 1]
    ELSE LET c == Head(calls)
             fs1 == IF c.op = "Write" THEN ccWrite(fs, c.path, c.content) ELSE ccRemove(fs, c.path)
         IN runCalls(fs1, Tail(calls), n + 1, failAt)

Outcome(err, panic, fs, changes, calls) ==
    [err |-> err, panic |-> panic, fs |-> fs, changes |-> changes, calls |-> calls]

Failure(err, panic, fs) == {Outcome(err, panic, fs, EmptyMap, <<>>)}

\* applyCommit against fs: one outcome for each call that may fail
applied(fs, faulty, changes, calls) ==
    { Outcome(runCalls(fs, calls, 1, failAt).err, FALSE, runCalls(fs, calls, 1, failAt).fs,
              changes, SubSeq(calls, 1, runCalls(fs, calls, 1, failAt).made))
      : failAt \in IF faulty THEN 0..Len(calls) ELSE {0} }

committed(fs, faulty, commit, orders) ==
    IF commit.err # "" \/ commit.panic THEN Failure(commit.err, commit.panic, fs)
    ELSE UNION {applied(fs, faulty, commit.changes, applyCommit(commit.changes, o2)) : o2 \in orders}

patched(fs, faulty, orig, patch) ==
    IF patch.err # "" THEN Failure(patch.err, FALSE, fs)
    ELSE UNION {committed(fs, faulty, patchToCommit(patch.actions, orig, o1),
                          Orders(DOMAIN patch.actions))
                : o1 \in Orders(DOMAIN patch.actions)}

loaded(pl, fs, faulty, ld) ==
    IF ld.err # "" THEN Failure(ld.err, FALSE, fs)
    ELSE patched(fs, faulty, ld.m, textToPatch(pl, ld.m))

\* processPatch: every outcome the map iteration orders allow; faulty says
\* whether the file system's Write and Remove may return an error
processPatch(pl, fs, faulty) ==
    IF pl = <<>> \/ ~HasPrefix(pl[1], BeginPatch)
    THEN Failure("Patch text must start with *** Begin Patch", FALSE, fs)
    ELSE loaded(pl, fs, faulty, loadFiles(identifyFilesNeeded(pl), fs))

\* strings.TrimSpace(patchText) + "\n", on lines: the blank lines at both
\* ends go
IsBlank(l) == l.k \in {"", " "} /\ TrimSpace(l.t) = ""

RECURSIVE TrimLeft(_)
TrimLeft(pl) == IF pl # <<>> /\ IsBlank(Head(pl)) THEN TrimLeft(Tail(pl)) ELSE pl

RECURSIVE TrimRight(_)
TrimRight(pl) ==
    IF pl # <<>> /\ IsBlank(pl[Len(pl)]) THEN TrimRight(SubSeq(pl, 1, Len(pl) - 1)) ELSE pl

ApplyPatch(fs, patchText, faulty) == processPatch(TrimRight(TrimLeft(patchText)), fs, faulty)

(***************************************************************************)
(* Inputs of the container model                                           *)
(***************************************************************************)
Refs == {1, 2}
Names == {"c", "c2"}

\* contents passed to NewCodeContainer and Write
WriteContents == {<<"a">>, <<"a", "b">>}

InitialFiles == UNION {[D -> WriteContents] : D \in SUBSET Paths}

Hunks ==
    { <<>>,
      <<L("+", "b")>>,
      <<L("-", "a"), L("+", "b")>>,
      <<L(AtDef, "a"), L("+", "b")>>,
      <<L(" ", "a"), L("-", "b"), L(EndOfFile, "")>> }

UpdateBlock(path, mv, h) ==
    <<L(UpdateFile, path)>> \o (IF mv = "" THEN <<>> ELSE <<L(MoveTo, mv)>>) \o h

UpdateBlocks == {UpdateBlock(path, mv, h) : path \in Paths, mv \in Paths \cup {""}, h \in Hunks}

DeleteBlocks == {<<L(DeleteFile, path)>> : path \in Paths}

AddBlocks == {<<L(AddFile, path), L("+", "b")>> : path \in Paths}

\* updates of p made of two hunks: the second one anchored at the end of the
\* file, or following a hunk that only inserts
TwoHunks ==
    { <<L("-", "a"), L("+", "b"), L(AtOnly, ""), L("-", "b"), L("+", "a"), L(EndOfFile, "")>>,
      <<L("-", "a"), L("+", "b"), L(AtOnly, ""), L("-", "a"), L(EndOfFile, "")>>,
      <<L("+", "b"), L(AtOnly, ""), L("-", "a")>>,
      <<L(" ", "a"), L("-", "b"), L(AtOnly, ""), L("+", "b")>> }

OddBlocks == {<<L("", "junk")>>, <<L(EndPatch, "")>>, <<L(Stars, "")>>}

\* the blocks that patches of two actions are made of
PairBlocks ==
    {UpdateBlock(path, mv, <<L("-", "a"), L("+", "b")>>) : path \in Paths, mv \in Paths \cup {""}}
    \cup DeleteBlocks \cup AddBlocks \cup {<<L(EndPatch, "")>>}

Bodies ==
    {<<>>} \cup UpdateBlocks \cup DeleteBlocks \cup AddBlocks \cup OddBlocks
    \cup {<<L(AddFile, "p"), L("+", "b"), L("+", "a")>>, <<L(AddFile, "p")>>,
          <<L(AddFile, "p"), L("-", "a")>>}
    \cup {x \o y : x \in PairBlocks, y \in PairBlocks}
    \cup {UpdateBlock("p", "", h) : h \in TwoHunks}

\* Patch texts given to Apply: framed bodies, framed bodies inside blank
\* lines, and texts that miss a sentinel
PatchTexts ==
    {<<L(BeginPatch, "")>> \o b \o <<L(EndPatch, "")>> : b \in Bodies}
    \cup {<<L("", ""), L(BeginPatch, ""), L(DeleteFile, "p"), L(EndPatch, ""), L("", "")>>,
          <<L(BeginPatch, ""), L(DeleteFile, "p"), L(EndPatch, ""), L(DeleteFile, "p"), L(EndPatch, "")>>,
          <<L(BeginPatch, ""), L(DeleteFile, "p")>>,
          <<L(DeleteFile, "p"), L(EndPatch, "")>>}

\* Patch texts of the two-container model: one of each kind of change
FewPatchTexts ==
    {<<L(BeginPatch, "")>> \o b \o <<L(EndPatch, "")>> :
        b \in DeleteBlocks \cup AddBlocks
              \cup {<<L(UpdateFile, "p"), L(MoveTo, "q"), L("-", "a"), L("+", "b")>>,
                    <<L(UpdateFile, "q"), L("-", "a"), L("+", "b")>>,
                    <<L("", "junk")>>}}

(***************************************************************************)
(* The parts of the state before anything ran                              *)
(***************************************************************************)
NoResult == [err |-> "", panic |-> FALSE, content |-> Nil]

\* no call of getUpdatedFile was made
NoUpdate ==
    /\ callText = <<"">>
    /\ callAction = [Type |-> ActionUpdate, NewFile |-> Nil, Chunks |-> <<>>, MovePath |-> ""]
    /\ updated = NoResult

NoMessage == [Content |-> "", ToolCalls |-> <<>>]
NotReturned == [done |-> FALSE, hasToolCalls |-> FALSE, err |-> "", panic |-> FALSE]

\* toolCallChecker at its first sr.Recv(): callStreamer is nil
NoStream ==
    /\ pc = "recv"
    /\ received = 0
    /\ toolCallMsgs = 0
    /\ msg = NoMessage
    /\ hasToolCalls = FALSE
    /\ lastToolCallID = ""
    /\ streamers = <<>>
    /\ Output = <<>>
    /\ returned = NotReturned

\* NewJSONStreamDecoder(r): nothing read, nothing emitted
\*   at: the statement of Stream the decoder stands at; pos: the bytes it
\*   took from its reader; sb: the strings.Builder of the string or literal
\*   being read; out: the chunks given to the consumer; returned, err,
\*   partial: what Stream returned (partial: wrapped as PartialJSONError)
NewJSONStreamDecoder ==
    [at |-> "start", pos |-> 0, sb |-> <<>>, first |-> TRUE, emitted |-> FALSE,
     out |-> <<>>, returned |-> FALSE, err |-> "", partial |-> FALSE]

\* no decoder was given an input
NoDecoder ==
    /\ object = [fields |-> <<>>, spaced |-> FALSE]
    /\ jsonInput = <<>>
    /\ delivered = 0
    /\ inputClosed = FALSE
    /\ dec = NewJSONStreamDecoder

\* the channel before make(chan string, 4096)
NilChan == [made |-> FALSE, closed |-> FALSE, closes |-> 0, buf |-> <<>>, sent |-> 0]

\* history.Changelog{Timestamp: ts}
Changelog(ts) == [Timestamp |-> ts, Success |-> FALSE, Logs |-> <<>>, TODO |-> <<>>]

NoChangelog == Changelog(0)

\* the finalize tool was not called
NoFinalize ==
    /\ finalizeTool = [hasChangelog |-> TRUE, Changelog |-> NoChangelog]
    /\ finalizeArgs = [kind |-> "empty", Status |-> <<>>, Changelog |-> <<>>, TODO |-> <<>>]
    /\ finalizeCalls = 0
    /\ finalizeReturned = [out |-> <<>>, err |-> ""]

\* an empty disk nothing was flushed to
NoDisk ==
    /\ disk = <<>>
    /\ flushedOnce = FALSE

NoArgs == [kind |-> "empty", envelope |-> "", patch |-> <<>>]

\* the apply_edit tool was not called
NoApplyEdit ==
    /\ applyEditArgs = NoArgs
    /\ applyEditCalls = 0
    /\ applyEditReturned = [out |-> "", err |-> "", panic |-> FALSE, patchErr |-> ""]

NoChild == [ran |-> FALSE, argv |-> <<>>, env |-> <<>>]

\* no CLI tool was called
NoCli ==
    /\ cliDef = [envs |-> <<>>, argv |-> <<>>, Env |-> <<>>]
    /\ cliEnviron = <<>>
    /\ cliArgs = [kind |-> "empty", Args |-> <<>>]
    /\ cliChild = NoChild
    /\ cliReturned = [done |-> FALSE, err |-> ""]

NotRead == [done |-> FALSE, err |-> "", data |-> <<>>]

\* no file was rendered
NoXML ==
    /\ fileContent = <<>>
    /\ fileXML = <<>>
    /\ fileRead = NotRead

\* Parser.parse was not called
NoParse ==
    /\ parser = [Lines |-> <<>>, CurrentFiles |-> <<>>, Index |-> 0, Actions |-> <<>>, Fuzz |-> 0]
    /\ psAt = "returned"
    /\ psErr = ""
    /\ psUpd = <<>>
    /\ psPeek = <<>>
    /\ psAdd = <<>>

NotFound == [called |-> FALSE, idx |-> 0, fuzz |-> 0]

\* no call of findContext was made
NoMatch ==
    /\ fcLines = <<>>
    /\ fcContext = <<>>
    /\ fcStart = 0
    /\ fcEof = FALSE
    /\ fcFound = NotFound

\* no tool was called and nothing was rendered
NoOther ==
    /\ NoFinalize
    /\ NoDisk
    /\ NoApplyEdit
    /\ NoCli
    /\ NoXML
    /\ NoMatch
    /\ NoParse

\* a runner with an empty history, the output channel ch and the forwarder
\* task in the state fw
RunnerWith(ch, fw) ==
    /\ runAt = "start"
    /\ ctxDone = FALSE
    /\ rOutput = ch
    /\ forwarder = fw
    /\ recorder = <<>>
    /\ agentExecErr = ""
    /\ changelog = NoChangelog
    /\ KeepHistory = FALSE
    /\ MinInterval = 0
    /\ now = 0
    /\ History = <<>>
    /\ historyFile = <<>>
    /\ fileWrites = 0
    /\ previous = <<>>
    /\ runReturned = [done |-> FALSE, err |-> ""]

\* Run does not stand in the statements the model follows
NotRunning(ch) == RunnerWith(ch, "none")

\* Run was not called
NoRun == NotRunning(NilChan)

(***************************************************************************)
(* State of the containers                                                 *)
(***************************************************************************)
fsOf(k) == [files |-> fileMaps[containers[k].files], deleted |-> deletedMaps[containers[k].deleted]]

NoCall ==
    [op |-> "none", k |-> "", path |-> "", content |-> Nil, patch |-> <<>>, faulty |-> FALSE,
     err |-> "", panic |-> FALSE, txt |-> Nil, pre |-> NoFs, changes |-> EmptyMap,
     calls |-> <<>>]

Idle == last.op = "none"

WithinBounds(fs) == \A x \in DOMAIN fs.files : Len(fs.files[x]) <= MaxLines

\* NewCodeContainer(files): the container holds a copy of files
NewCodeContainer(files) ==
    /\ fileMaps = [r \in Refs |-> IF r = 1 THEN [x \in DOMAIN files |-> files[x]] ELSE EmptyMap]
    /\ deletedMaps = [r \in Refs |-> {}]
    /\ containers = [k \in Names |-> IF k = "c" THEN [files |-> 1, deleted |-> 1] ELSE NilContainer]

InitContainer ==
    /\ \E files \in InitialFiles : NewCodeContainer(files)
    /\ last = NoCall
    /\ NoUpdate
    /\ NoStream
    /\ NoDecoder
    /\ NoRun
    /\ NoOther

\* the maps of container k become those of fs
Store(k, fs) ==
    /\ fileMaps' = [fileMaps EXCEPT ![containers[k].files] = fs.files]
    /\ deletedMaps' = [deletedMaps EXCEPT ![containers[k].deleted] = fs.deleted]
    /\ UNCHANGED containers

Open(k, path) ==
    /\ Idle /\ containers[k] # NilContainer
    /\ LET r == ccOpen(fsOf(k), path) IN
       last' = [NoCall EXCEPT !.op = "Open", !.k = k, !.path = path, !.err = r.err,
                              !.txt = r.txt, !.pre = fsOf(k)]
    /\ UNCHANGED <<fileMaps, deletedMaps, containers, uvars, svars, dvars, rvars, ovars>>

Write(k, path, content) ==
    /\ Idle /\ containers[k] # NilContainer
    /\ Store(k, ccWrite(fsOf(k), path, content))
    /\ last' = [NoCall EXCEPT !.op = "Write", !.k = k, !.path = path, !.content = content,
                              !.pre = fsOf(k), !.calls = <<WriteCall(path, content)>>]
    /\ UNCHANGED <<uvars, svars, dvars, rvars, ovars>>

Remove(k, path) ==
    /\ Idle /\ containers[k] # NilContainer
    /\ Store(k, ccRemove(fsOf(k), path))
    /\ last' = [NoCall EXCEPT !.op = "Remove", !.k = k, !.path = path,
                              !.pre = fsOf(k), !.calls = <<RemoveCall(path)>>]
    /\ UNCHANGED <<uvars, svars, dvars, rvars, ovars>>

\* a clone that shares the files map of the container it was made from
cloneFilesRef_shared(cont) == cont.files

\* the ref of the files map of a clone of cont: a map of its own
cloneFilesRef(cont) == 2

\* c2 = c.Clone()
Clone ==
    /\ Idle
    /\ LET fs == fsOf("c")
           fref == cloneFilesRef(containers["c"])
       IN /\ fileMaps' = [fileMaps EXCEPT ![fref] = ccFiles(fs)]
          /\ deletedMaps' = [deletedMaps EXCEPT ![2] = fs.deleted]
          /\ containers' = [containers EXCEPT !["c2"] = [files |-> fref, deleted |-> 2]]
          /\ last' = [NoCall EXCEPT !.op = "Clone", !.k = "c", !.pre = fs]
    /\ UNCHANGED <<uvars, svars, dvars, rvars, ovars>>

\* CodeContainer.Apply(output): v4a.ApplyPatch(c, output.Patch)
Apply(k, text) ==
    /\ Idle /\ containers[k] # NilContainer
    /\ \E out \in ApplyPatch(fsOf(k), text, FALSE) :
         /\ WithinBounds(out.fs)
         /\ Store(k, out.fs)
         /\ last' = [NoCall EXCEPT !.op = "Apply", !.k = k, !.patch = text, !.err = out.err,
                                   !.panic = out.panic, !.pre = fsOf(k), !.changes = out.changes,
                                   !.calls = out.calls]
    /\ UNCHANGED <<uvars, svars, dvars, rvars, ovars>>

\* v4a.ApplyPatch(fs, text) with a FileSystem over the container's maps
\* whose Write and Remove may return an error
ApplyPatchFaulty(k, text) ==
    /\ Idle /\ containers[k] # NilContainer
    /\ \E out \in ApplyPatch(fsOf(k), text, TRUE) :
         /\ out.err = "failed to apply commit"
         /\ WithinBounds(out.fs)
         /\ Store(k, out.fs)
         /\ last' = [NoCall EXCEPT !.op = "ApplyPatch", !.k = k, !.patch = text, !.faulty = TRUE,
                                   !.err = out.err, !.panic = out.panic, !.pre = fsOf(k),
                                   !.changes = out.changes, !.calls = out.calls]
    /\ UNCHANGED <<uvars, svars, dvars, rvars, ovars>>

\* the caller takes the result of the call
Return ==
    /\ ~Idle
    /\ last' = NoCall
    /\ UNCHANGED <<fileMaps, deletedMaps, containers, uvars, svars, dvars, rvars, ovars>>

NextPatch ==
    \/ \E path \in Paths : Open("c", path)
    \/ \E path \in Paths, content \in WriteContents : Write("c", path, content)
    \/ \E path \in Paths : Remove("c", path)
    \/ \E text \in PatchTexts : Apply("c", text)
    \/ \E text \in PatchTexts : ApplyPatchFaulty("c", text)
    \/ Return

Spec == InitContainer /\ [][NextPatch]_vars

NextClone ==
    \/ \E k \in Names, path \in Paths : Open(k, path)
    \/ \E k \in Names, path \in Paths, content \in WriteContents : Write(k, path, content)
    \/ \E k \in Names, path \in Paths : Remove(k, path)
    \/ Clone
    \/ \E k \in Names, text \in FewPatchTexts : Apply(k, text)
    \/ Return

SpecClone == InitContainer /\ [][NextClone]_vars

(***************************************************************************)
(* The container and the disk: edits and WriteToFiles                      *)
(***************************************************************************)
InitFlush ==
    /\ \E files \in InitialFiles : NewCodeContainer(files)
    /\ disk \in InitialFiles
    /\ flushedOnce = FALSE
    /\ last = NoCall
    /\ NoUpdate
    /\ NoStream
    /\ NoDecoder
    /\ NoRun
    /\ NoFinalize
    /\ NoApplyEdit
    /\ NoCli
    /\ NoXML
    /\ NoMatch
    /\ NoParse

\* c.WriteToFiles()
WriteToFiles(k) ==
    /\ Idle /\ containers[k] # NilContainer
    /\ \E order \in Orders(fsOf(k).deleted) :
         /\ disk' = ccWriteToFiles(fsOf(k), disk, order).disk
         /\ flushedOnce' = (flushedOnce \/ (ccWriteToFiles(fsOf(k), disk, order).err = ""
                                             /\ fsOf(k).deleted # {}))
         /\ last' = [NoCall EXCEPT !.op = "WriteToFiles", !.k = k, !.pre = fsOf(k),
                                   !.err = ccWriteToFiles(fsOf(k), disk, order).err]
    /\ UNCHANGED <<fileMaps, deletedMaps, containers, uvars, svars, dvars, rvars, fvars, avars,
                   evars, xvars, mvars, pvars>>

NextFlush ==
    \/ \E path \in Paths, content \in WriteContents : Write("c", path, content)
    \/ \E path \in Paths : Remove("c", path)
    \/ \E text \in FewPatchTexts : Apply("c", text)
    \/ WriteToFiles("c")
    \/ Return

SpecFlush == InitFlush /\ [][NextFlush]_vars

(***************************************************************************)
(* One call of getUpdatedFile                                              *)
(***************************************************************************)
\* the sequences over S of length lo..hi
SeqsOf(S, lo, hi) == UNION {[1..n -> S] : n \in lo..hi}

Texts == SeqsOf({"a", "b"}, 1, MaxLines)

\* chunks of every shape: inside the text, at its end, past its end
SomeChunks ==
    {Chunk(i, d, n) : i \in 0..(MaxLines + 1),
                      d \in {<<>>, <<"a">>, <<"a", "b">>},
                      n \in {<<>>, <<"x">>}}

InitUpdate ==
    /\ callText \in Texts
    /\ \E chunks \in SeqsOf(SomeChunks, 0, MaxChunks) :
         callAction = [Type |-> ActionUpdate, NewFile |-> Nil, Chunks |-> chunks, MovePath |-> ""]
    /\ updated = NoResult
    /\ NewCodeContainer(EmptyMap)
    /\ last = NoCall
    /\ NoStream
    /\ NoDecoder
    /\ NoRun
    /\ NoOther

GetUpdatedFile ==
    /\ updated = NoResult
    /\ updated' = getUpdatedFile(callText, callAction)
    /\ UNCHANGED <<callText, callAction, cvars, svars, dvars, rvars, ovars>>

SpecUpd == InitUpdate /\ [][GetUpdatedFile]_vars

(***************************************************************************)
(* JSONStreamDecoder.Stream                                                *)
(*                                                                         *)
(* The argument text of a tool call is kept as a sequence of JSON tokens:  *)
(* "{", "}", "[" and the string literals "k" and "v".  The ":" and ","     *)
(* between them, which json.Decoder.Token skips, are left out, and a       *)
(* fragment of argument text ends between two tokens.                      *)
(***************************************************************************)
IsString(tok) == tok \in {"k", "v"}

\* One step of Stream on the next token: the phase that follows, the chunk
\* given to out (Nil: none) and the error Stream returns (phase "stopped")
DecodeResult(phase, chunk, err) == [phase |-> phase, chunk |-> chunk, err |-> err]

Stream(phase, tok) ==
    CASE phase = "start" ->
           IF tok = "{" THEN DecodeResult("more", Nil, "")
           ELSE DecodeResult("stopped", Nil, "json stream must begin with an object")
      [] phase = "more" ->
           IF tok = "}" THEN DecodeResult("stopped", Nil, "")
           ELSE IF IsString(tok) THEN DecodeResult("value", <<tok, ":\n">>, "")
           ELSE DecodeResult("stopped", Nil, "json stream object keys must be strings")
      [] phase = "value" ->
           IF IsString(tok) THEN DecodeResult("more", <<tok, "\n">>, "")
           ELSE IF tok = "}" THEN DecodeResult("stopped", Nil, "invalid character")
           ELSE DecodeResult("stopped", Nil, "unsupported json stream value type")
      [] OTHER -> DecodeResult("stopped", Nil, "")

(***************************************************************************)
(* ToolCallStreamer and toolCallChecker                                    *)
(***************************************************************************)
OutputCap == 4096

ToolCall(id, name, arguments) == [ID |-> id, Name |-> name, Arguments |-> arguments]

Message(content, calls) == [Content |-> content, ToolCalls |-> calls]

Object == <<"{", "k", "v", "}">>

\* the messages the model's stream is made of
Messages ==
    { Message("x", <<>>),
      Message("", <<ToolCall("A", "f", <<>>)>>),
      Message("", <<ToolCall("A", "f", Object)>>),
      Message("", <<ToolCall("A", "f", <<"{", "k">>)>>),
      Message("", <<ToolCall("A", "f", <<"{", "k", "[">>)>>),
      Message("", <<ToolCall("B", "f", Object)>>),
      Message("", <<ToolCall("", "", <<"v", "}">>)>>),
      Message("", <<ToolCall("", "", <<"[">>)>>),
      Message("", <<ToolCall("", "", <<>>)>>),
      Message("x", <<ToolCall("A", "f", Object), ToolCall("B", "f", Object)>>),
      Message("", <<ToolCall("A", "f", Object), ToolCall("B", "f", Object)>>) }

\* NewToolCallStreamer(id, out): the struct, its pipe and its decoder task
\*   closed: Writer.Close() was called; pending: the bytes of a Write the
\*   reader has not taken yet; buf: the bytes the decoder holds; phase and
\*   err: where Stream stands and what it returned; fed (history): the
\*   argument bytes OnMsg was given, in the order of the calls
NewToolCallStreamer(id) ==
    [ID |-> id, FnName |-> <<>>, HeaderPrinted |-> FALSE, closed |-> FALSE,
     pending |-> <<>>, buf |-> <<>>, phase |-> "start", err |-> "", fed |-> <<>>]

\* callStreamer: the index of the current streamer, 0 for nil
callStreamer == Len(streamers)

\* a string on r.Output; by and s tell the task that sent it ("classifier" or
\* "decoder") and the streamer it belongs to (0: none)
Sent(by, s, str) == [by |-> by, s |-> s, str |-> str]

\* the variables of Run but r.Output
runvars ==
    <<runAt, ctxDone, forwarder, recorder, agentExecErr, changelog, KeepHistory, MinInterval,
      now, History, historyFile, fileWrites, previous, runReturned>>

\* out <- str: the string goes into the buffer of the channel
Send(by, s, str) ==
    /\ Len(Output) < OutputCap
    /\ Output' = Append(Output, Sent(by, s, str))
    /\ rOutput' = [rOutput EXCEPT !.buf = Append(@, str), !.sent = @ + 1]

\* ToolCallStreamer.Close on the current streamer, if there is one
Closed(ss) == IF ss = <<>> THEN ss ELSE [ss EXCEPT ![Len(ss)].closed = TRUE]

\* the agent calls toolCallChecker while Run consumes the agent's stream:
\* r.Output was made
InitStream ==
    /\ NoStream
    /\ NewCodeContainer(EmptyMap)
    /\ last = NoCall
    /\ NoUpdate
    /\ NoDecoder
    /\ NotRunning([NilChan EXCEPT !.made = TRUE])
    /\ NoOther

\* msg, err := sr.Recv() returns a message, one of those in M
RecvFrom(M) ==
    /\ pc = "recv" /\ received < MaxMsgs
    /\ \E m \in M :
         /\ msg' = m
         /\ hasToolCalls' = (hasToolCalls \/ Len(m.ToolCalls) > 0)
         /\ pc' = IF Len(m.ToolCalls) = 1 THEN "call" ELSE "frame"
         /\ toolCallMsgs' = toolCallMsgs + (IF m.ToolCalls # <<>> THEN 1 ELSE 0)
    /\ received' = received + 1
    /\ UNCHANGED <<lastToolCallID, streamers, Output, returned, cvars, uvars, dvars, rvars, ovars>>

\* a toolCallChecker whose flag tells of the message in hand only
Recv_overwrites ==
    /\ pc = "recv" /\ received < MaxMsgs
    /\ \E m \in Messages :
         /\ msg' = m
         /\ hasToolCalls' = (Len(m.ToolCalls) > 0)
         /\ pc' = IF Len(m.ToolCalls) = 1 THEN "call" ELSE "frame"
         /\ toolCallMsgs' = toolCallMsgs + (IF m.ToolCalls # <<>> THEN 1 ELSE 0)
    /\ received' = received + 1
    /\ UNCHANGED <<lastToolCallID, streamers, Output, returned, cvars, uvars, dvars, rvars, ovars>>

\* the stream gives any of the messages of the model
Recv == RecvFrom(Messages)

\* sr.Recv() returns io.EOF: the loop ends
RecvEOF ==
    /\ pc = "recv"
    /\ pc' = "newline"
    /\ UNCHANGED <<received, toolCallMsgs, msg, hasToolCalls, lastToolCallID, streamers, Output, returned,
                   cvars, uvars, dvars, rvars, ovars>>

\* sr.Recv() returns another error: return false, err
RecvError ==
    /\ pc = "recv"
    /\ pc' = "defer"
    /\ returned' = [done |-> FALSE, hasToolCalls |-> FALSE, err |-> "recv", panic |-> FALSE]
    /\ UNCHANGED <<received, toolCallMsgs, msg, hasToolCalls, lastToolCallID, streamers, Output, cvars, uvars, dvars, rvars,
                   ovars>>

\* r.streamFrame(r.Output, msg)
streamFrame ==
    /\ pc = "frame"
    /\ IF msg.Content # ""
       THEN Send("classifier", 0, <<msg.Content>>) /\ pc' = "recv" /\ UNCHANGED returned
       ELSE IF Len(msg.ToolCalls) > 0
       THEN /\ pc' = "defer"
            /\ returned' = [NotReturned EXCEPT !.panic = TRUE]
            /\ UNCHANGED <<Output, rOutput>>
       ELSE pc' = "recv" /\ UNCHANGED <<Output, rOutput, returned>>
    /\ UNCHANGED <<received, toolCallMsgs, msg, hasToolCalls, lastToolCallID, streamers, cvars,
                   uvars, dvars, runvars, ovars>>

\* the id rule: a fragment with a new id closes the current streamer and
\* makes the next one
NextStreamer ==
    /\ pc = "call"
    /\ LET call == msg.ToolCalls[1] IN
       IF call.ID # "" /\ call.ID # lastToolCallID
       THEN /\ lastToolCallID' = call.ID
            /\ streamers' = Append(Closed(streamers), NewToolCallStreamer(call.ID))
       ELSE UNCHANGED <<lastToolCallID, streamers>>
    /\ pc' = "onmsg"
    /\ UNCHANGED <<received, toolCallMsgs, msg, hasToolCalls, Output, returned, cvars, uvars, dvars, rvars,
                   ovars>>

\* an OnMsg that does not look at HeaderPrinted
OnMsg_headerEachTime ==
    /\ pc = "onmsg"
    /\ LET call == msg.ToolCalls[1] IN
       IF callStreamer = 0
       THEN /\ IF call.Name # "" \/ call.Arguments # <<>>
               THEN pc' = "defer" /\ returned' = [NotReturned EXCEPT !.panic = TRUE]
               ELSE pc' = "recv" /\ UNCHANGED returned
            /\ UNCHANGED streamers
       ELSE /\ streamers' =
                 [streamers EXCEPT
                    ![callStreamer].FnName = IF call.Name # "" THEN Append(@, call.Name) ELSE @,
                    ![callStreamer].HeaderPrinted = @ \/ call.Arguments # <<>>]
            /\ pc' = IF call.Arguments = <<>> THEN "recv"
                     ELSE "header1"
            /\ UNCHANGED returned
    /\ UNCHANGED <<received, toolCallMsgs, msg, hasToolCalls, lastToolCallID, Output, cvars, uvars, dvars, rvars,
                   ovars>>

\* callStreamer.OnMsg(&call) up to its first send or write; a nil
\* callStreamer is dereferenced when the fragment has a name or arguments
OnMsg ==
    /\ pc = "onmsg"
    /\ LET call == msg.ToolCalls[1] IN
       IF callStreamer = 0
       THEN /\ IF call.Name # "" \/ call.Arguments # <<>>
               THEN pc' = "defer" /\ returned' = [NotReturned EXCEPT !.panic = TRUE]
               ELSE pc' = "recv" /\ UNCHANGED returned
            /\ UNCHANGED streamers
       ELSE /\ streamers' =
                 [streamers EXCEPT
                    ![callStreamer].FnName = IF call.Name # "" THEN Append(@, call.Name) ELSE @,
                    ![callStreamer].HeaderPrinted = @ \/ call.Arguments # <<>>]
            /\ pc' = IF call.Arguments = <<>> THEN "recv"
                     ELSE IF streamers[callStreamer].HeaderPrinted THEN "write"
                     ELSE "header1"
            /\ UNCHANGED returned
    /\ UNCHANGED <<received, toolCallMsgs, msg, hasToolCalls, lastToolCallID, Output, cvars, uvars, dvars, rvars,
                   ovars>>

HeaderLine(n, s) ==
    CASE n = "header1" -> <<"\nTool call id: ", s.ID, "\n">>
      [] n = "header2" -> <<"Tool call function name: ", s.FnName, "\n">>
      [] OTHER -> <<"Tool call arguments:\n">>

AfterHeader(n) ==
    CASE n = "header1" -> "header2"
      [] n = "header2" -> "header3"
      [] OTHER -> "write"

\* one of the three sends of the header
Header ==
    /\ pc \in {"header1", "header2", "header3"}
    /\ Send("classifier", callStreamer, HeaderLine(pc, streamers[callStreamer]))
    /\ pc' = AfterHeader(pc)
    /\ UNCHANGED <<received, toolCallMsgs, msg, hasToolCalls, lastToolCallID, streamers, returned,
                   cvars, uvars, dvars, runvars, ovars>>

\* s.Writer.Write(arguments) hands the bytes to the pipe and waits until the
\* reader has taken them; the writer of the current streamer is open as long
\* as the loop runs
PipeWrite ==
    /\ pc = "write"
    /\ streamers' = [streamers EXCEPT ![callStreamer].pending = msg.ToolCalls[1].Arguments,
                                      ![callStreamer].fed = @ \o msg.ToolCalls[1].Arguments]
    /\ pc' = "writing"
    /\ UNCHANGED <<received, toolCallMsgs, msg, hasToolCalls, lastToolCallID, Output, returned, cvars, uvars, dvars, rvars,
                   ovars>>

\* Write returns nil once the reader has taken the bytes, and so does OnMsg
WriteReturns ==
    /\ pc = "writing"
    /\ streamers[callStreamer].pending = <<>>
    /\ pc' = "recv"
    /\ UNCHANGED <<received, toolCallMsgs, msg, hasToolCalls, lastToolCallID, streamers, Output, returned,
                   cvars, uvars, dvars, rvars, ovars>>

\* after the loop: r.Output <- "\n"; return hasToolCalls, nil
Newline ==
    /\ pc = "newline"
    /\ Send("classifier", 0, <<"\n">>)
    /\ returned' = [NotReturned EXCEPT !.hasToolCalls = hasToolCalls]
    /\ pc' = "defer"
    /\ UNCHANGED <<received, toolCallMsgs, msg, hasToolCalls, lastToolCallID, streamers, cvars,
                   uvars, dvars, runvars, ovars>>

\* the deferred callStreamer.Close(), on return and on panic
Deferred ==
    /\ pc = "defer"
    /\ streamers' = Closed(streamers)
    /\ returned' = [returned EXCEPT !.done = TRUE]
    /\ pc' = "done"
    /\ UNCHANGED <<received, toolCallMsgs, msg, hasToolCalls, lastToolCallID, Output, cvars, uvars, dvars, rvars,
                   ovars>>

Running(i) == streamers[i].phase # "stopped"

\* the panic of a send on a closed channel
SendOnClosed == "panic: send on closed channel"

\* the decoder of streamer i reads from the pipe: it takes the bytes of the
\* Write in progress
DecoderRead(i) ==
    /\ Running(i)
    /\ streamers[i].buf = <<>> /\ streamers[i].pending # <<>>
    /\ streamers' = [streamers EXCEPT ![i].buf = streamers[i].pending, ![i].pending = <<>>]
    /\ UNCHANGED <<pc, received, toolCallMsgs, msg, hasToolCalls, lastToolCallID, Output, returned, cvars, uvars, dvars, rvars,
                   ovars>>

\* the read returns io.EOF after Writer.Close(): Stream returns the error,
\* the task logs it and ends
DecoderEOF(i) ==
    /\ Running(i)
    /\ streamers[i].buf = <<>> /\ streamers[i].pending = <<>> /\ streamers[i].closed
    /\ streamers' = [streamers EXCEPT ![i].phase = "stopped", ![i].err = "EOF"]
    /\ UNCHANGED <<pc, received, toolCallMsgs, msg, hasToolCalls, lastToolCallID, Output, returned, cvars, uvars, dvars, rvars,
                   ovars>>

\* Stream takes the next token: s.Out <- str for the chunk it yields, which
\* panics when the channel is closed; when Stream returns, the task ends and
\* leaves the pipe reader open
DecoderStream(i) ==
    /\ Running(i)
    /\ streamers[i].buf # <<>>
    /\ LET r == Stream(streamers[i].phase, Head(streamers[i].buf)) IN
       IF r.chunk # Nil /\ rOutput.closed
       THEN /\ streamers' = [streamers EXCEPT ![i].phase = "stopped", ![i].err = SendOnClosed]
            /\ UNCHANGED <<Output, rOutput>>
       ELSE /\ streamers' = [streamers EXCEPT ![i].buf = Tail(@), ![i].phase = r.phase,
                                               ![i].err = r.err]
            /\ IF r.chunk # Nil THEN Send("decoder", i, r.chunk)
               ELSE UNCHANGED <<Output, rOutput>>
    /\ UNCHANGED <<pc, received, toolCallMsgs, msg, hasToolCalls, lastToolCallID, returned, cvars,
                   uvars, dvars, runvars, ovars>>

\* Run, once toolCallChecker has returned and the stream of the agent has
\* ended: close(r.Output)
OutputClosed ==
    /\ pc = "done" /\ ~rOutput.closed
    /\ rOutput' = [rOutput EXCEPT !.closed = TRUE, !.closes = @ + 1]
    /\ UNCHANGED <<runvars, cvars, uvars, svars, dvars, ovars>>

NextStream ==
    \/ Recv
    \/ RecvEOF
    \/ RecvError
    \/ streamFrame
    \/ NextStreamer
    \/ OnMsg
    \/ Header
    \/ PipeWrite
    \/ WriteReturns
    \/ Newline
    \/ Deferred
    \/ \E i \in 1..Len(streamers) : DecoderRead(i)
    \/ \E i \in 1..Len(streamers) : DecoderEOF(i)
    \/ \E i \in 1..Len(streamers) : DecoderStream(i)
    \/ OutputClosed

SpecStream == InitStream /\ [][NextStream]_vars

(***************************************************************************)
(* JSONStreamDecoder of package json_stream_decoder, byte by byte          *)
(*                                                                         *)
(* A text is a sequence of one-character strings.  The decoder takes one   *)
(* byte of its bufio.Reader per step (ReadByte or Peek); EOF stands for    *)
(* the io.EOF a read gives when the input is closed and used up.  The      *)
(* texts of the model hold no \u escape.                                   *)
(***************************************************************************)
MaxFields == 2   \* fields of the object given to the decoder

EOF == "EOF"

isSpace(b) == b \in {" ", "\n", "\r", "\t"}

\* a decoder that ends every chunk with one more newline
ensureTrailingNewline_always(s) == Append(s, "\n")

ensureTrailingNewline(s) == IF s # <<>> /\ s[Len(s)] = "\n" THEN s ELSE Append(s, "\n")

\* an emit that forgets that it emitted
emit_forgets(d, chunk) == [d EXCEPT !.out = Append(@, chunk)]

\* d.emit(out, chunk) with a consumer that returns nil
emit(d, chunk) == [d EXCEPT !.out = Append(@, chunk), !.emitted = TRUE]

\* return d.wrapError(err)
wrapError(d, err) == [d EXCEPT !.returned = TRUE, !.err = err, !.partial = d.emitted]

\* d.reader.ReadByte() took the byte that was looked at
taking(d) == [d EXCEPT !.pos = @ + 1]

\* readEscape after the backslash: the decoded text and the error
readEscape(b) ==
    CASE b \in {"\"", "\\", "/"} -> [decoded |-> <<b>>, err |-> ""]
      [] b = "n" -> [decoded |-> <<"\n">>, err |-> ""]
      [] b = "r" -> [decoded |-> <<"\r">>, err |-> ""]
      [] b = "t" -> [decoded |-> <<"\t">>, err |-> ""]
      [] OTHER -> [decoded |-> <<>>, err |-> "invalid escape sequence"]

\* Stream up to the first field: skipSpaces, expectByte('{')
expectOpen(d, b) ==
    IF b = EOF THEN wrapError(d, "EOF")
    ELSE IF isSpace(b) THEN taking(d)
    ELSE IF b = "{" THEN [taking(d) EXCEPT !.at = "field"]
    ELSE wrapError(taking(d), "expected '{'")

\* the head of the loop: skipSpaces, the '}' that ends the object, the ','
\* between two fields, the '"' that opens the key of the first field
nextField(d, b) ==
    IF b = EOF THEN wrapError(d, "EOF")
    ELSE IF isSpace(b) THEN taking(d)
    ELSE IF b = "}" THEN [taking(d) EXCEPT !.at = "end", !.returned = TRUE]
    ELSE IF ~d.first
    THEN IF b # "," THEN wrapError(d, "expected ',' between object fields")
         ELSE [taking(d) EXCEPT !.at = "comma"]
    ELSE IF b = "\"" THEN [taking(d) EXCEPT !.at = "key", !.sb = <<>>]
    ELSE wrapError(taking(d), "expected '\"'")

\* after the ',': skipSpaces, expectByte('"')
afterComma(d, b) ==
    IF b = EOF THEN wrapError(d, "EOF")
    ELSE IF isSpace(b) THEN taking(d)
    ELSE IF b = "\"" THEN [taking(d) EXCEPT !.at = "key", !.sb = <<>>]
    ELSE wrapError(taking(d), "expected '\"'")

\* readString for the key, then emit "<key>:\n"
readString(d, b) ==
    IF b = EOF THEN wrapError(d, "EOF")
    ELSE IF b = "\"" THEN [emit(taking(d), d.sb \o <<":", "\n">>) EXCEPT !.at = "colon"]
    ELSE IF b = "\\" THEN [taking(d) EXCEPT !.at = "keyEscape"]
    ELSE [taking(d) EXCEPT !.sb = Append(@, b)]

escapeAdded(d, r, back) ==
    IF r.err # "" THEN wrapError(d, r.err)
    ELSE [d EXCEPT !.sb = @ \o r.decoded, !.at = back]

\* readEscape inside readString
readKeyEscape(d, b) ==
    IF b = EOF THEN wrapError(d, "EOF")
    ELSE escapeAdded(taking(d), readEscape(b), "key")

\* skipSpaces, expectByte(':')
expectColon(d, b) ==
    IF b = EOF THEN wrapError(d, "EOF")
    ELSE IF isSpace(b) THEN taking(d)
    ELSE IF b = ":" THEN [taking(d) EXCEPT !.at = "value"]
    ELSE wrapError(taking(d), "expected ':'")

\* the value was read: first = false, back to the head of the loop
valueRead(d) == [d EXCEPT !.at = "field", !.first = FALSE]

\* emit what the builder holds, if it holds something
emitBuilt(d) == IF d.sb # <<>> THEN emit(d, ensureTrailingNewline(d.sb)) ELSE d

readStringValue(d, b) ==
    IF b = EOF THEN wrapError(emitBuilt(d), "unexpected EOF")
    ELSE IF b = "\"" THEN valueRead(emit(taking(d), ensureTrailingNewline(d.sb)))
    ELSE IF b = "\\" THEN [taking(d) EXCEPT !.at = "stringEscape"]
    ELSE [taking(d) EXCEPT !.sb = Append(@, b)]

valueEscapeAdded(d, r) ==
    IF r.err # "" THEN wrapError(emitBuilt([d EXCEPT !.sb = @ \o r.decoded]), r.err)
    ELSE [d EXCEPT !.sb = @ \o r.decoded, !.at = "string"]

\* readEscape inside readStringValue
readValueEscape(d, b) ==
    IF b = EOF THEN wrapError(emitBuilt([d EXCEPT !.sb = Append(@, "\\")]), "EOF")
    ELSE valueEscapeAdded(taking(d), readEscape(b))

\* the literal ended: an empty one is an error
literalRead(d) ==
    IF d.sb = <<>> THEN wrapError(d, "unexpected EOF")
    ELSE valueRead(emit(d, ensureTrailingNewline(d.sb)))

readLiteralValue(d, b) ==
    IF b = EOF THEN literalRead(d)
    ELSE IF b \in {",", "}"} THEN literalRead(d)
    ELSE IF isSpace(b) THEN [taking(d) EXCEPT !.at = "literalSpaces"]
    ELSE [taking(d) EXCEPT !.sb = Append(@, b)]

\* skipSpaces after the literal
literalSpaces(d, b) ==
    IF b = EOF THEN literalRead(d)
    ELSE IF isSpace(b) THEN taking(d)
    ELSE literalRead(d)

\* a readValue that rejects '{' only and reads an array as a literal
readValue_arrayAsLiteral(d, b) ==
    IF b = EOF THEN wrapError(d, "EOF")
    ELSE IF isSpace(b) THEN taking(d)
    ELSE IF b = "\"" THEN [taking(d) EXCEPT !.at = "string", !.sb = <<>>]
    ELSE IF b = "{" THEN wrapError(d, "unsupported json stream value type")
    ELSE readLiteralValue([d EXCEPT !.at = "literal", !.sb = <<>>], b)

\* skipSpaces, then readValue on the byte it peeks at
readValue(d, b) ==
    IF b = EOF THEN wrapError(d, "EOF")
    ELSE IF isSpace(b) THEN taking(d)
    ELSE IF b = "\"" THEN [taking(d) EXCEPT !.at = "string", !.sb = <<>>]
    ELSE IF b \in {"{", "["} THEN wrapError(d, "unsupported json stream value type")
    ELSE readLiteralValue([d EXCEPT !.at = "literal", !.sb = <<>>], b)

\* Stream on the next byte of its reader, or on io.EOF
streamOn(d, b) ==
    CASE d.at = "start" -> expectOpen(d, b)
      [] d.at = "field" -> nextField(d, b)
      [] d.at = "comma" -> afterComma(d, b)
      [] d.at = "key" -> readString(d, b)
      [] d.at = "keyEscape" -> readKeyEscape(d, b)
      [] d.at = "colon" -> expectColon(d, b)
      [] d.at = "value" -> readValue(d, b)
      [] d.at = "string" -> readStringValue(d, b)
      [] d.at = "stringEscape" -> readValueEscape(d, b)
      [] d.at = "literal" -> readLiteralValue(d, b)
      [] d.at = "literalSpaces" -> literalSpaces(d, b)
      [] OTHER -> d

\* The inputs: the JSON text of an object of up to MaxFields fields, written
\* without spaces or with a space around every token
Field(key, kind, value) == [key |-> key, kind |-> kind, value |-> value]

StringValues == {<<>>, <<"a", "b">>, <<"a", "\n">>, <<"\"">>}

Fields ==
    {Field(<<"k">>, "string", v) : v \in StringValues}
      \cup {Field(<<"k">>, "literal", <<"1">>),
            Field(<<"k">>, "object", <<>>),
            Field(<<"k">>, "array", <<>>)}

Objects == SeqsOf(Fields, 0, MaxFields)

RECURSIVE Flat(_)
Flat(ss) == IF ss = <<>> THEN <<>> ELSE Head(ss) \o Flat(Tail(ss))

Escaped(ch) ==
    CASE ch = "\n" -> <<"\\", "n">>
      [] ch = "\"" -> <<"\\", "\"">>
      [] OTHER -> <<ch>>

Quoted(s) == <<"\"">> \o Flat([i \in 1..Len(s) |-> Escaped(s[i])]) \o <<"\"">>

ValueText(f) ==
    CASE f.kind = "string" -> Quoted(f.value)
      [] f.kind = "literal" -> f.value
      [] f.kind = "object" -> <<"{", "}">>
      [] OTHER -> <<"[", "]">>

Gap(spaced) == IF spaced THEN <<" ">> ELSE <<>>

FieldText(f, spaced) ==
    Quoted(f.key) \o Gap(spaced) \o <<":">> \o Gap(spaced) \o ValueText(f) \o Gap(spaced)

Marshal(fields, spaced) ==
    <<"{">> \o Gap(spaced)
      \o Flat([i \in 1..Len(fields) |->
                 (IF i > 1 THEN <<",">> \o Gap(spaced) ELSE <<>>) \o FieldText(fields[i], spaced)])
      \o <<"}">>

InitDecoder ==
    /\ \E fields \in Objects, spaced \in BOOLEAN :
         /\ object = [fields |-> fields, spaced |-> spaced]
         /\ jsonInput = Marshal(fields, spaced)
    /\ delivered = 0
    /\ inputClosed = FALSE
    /\ dec = NewJSONStreamDecoder
    /\ NewCodeContainer(EmptyMap)
    /\ last = NoCall
    /\ NoUpdate
    /\ NoStream
    /\ NoRun
    /\ NoOther

\* the writer of the input writes the next byte
Feed ==
    /\ ~inputClosed /\ delivered < Len(jsonInput)
    /\ delivered' = delivered + 1
    /\ UNCHANGED <<object, jsonInput, inputClosed, dec, cvars, uvars, svars, rvars, ovars>>

\* the writer closes the input, or the input was a string that ends here
CloseInput ==
    /\ ~inputClosed
    /\ inputClosed' = TRUE
    /\ UNCHANGED <<object, jsonInput, delivered, dec, cvars, uvars, svars, rvars, ovars>>

\* Stream reads a byte that was written
StreamByte ==
    /\ ~dec.returned /\ dec.pos < delivered
    /\ dec' = streamOn(dec, jsonInput[dec.pos + 1])
    /\ UNCHANGED <<object, jsonInput, delivered, inputClosed, cvars, uvars, svars, rvars, ovars>>

\* Stream reads past the end of a closed input
StreamEOF ==
    /\ ~dec.returned /\ dec.pos = delivered /\ inputClosed
    /\ dec' = streamOn(dec, EOF)
    /\ UNCHANGED <<object, jsonInput, delivered, inputClosed, cvars, uvars, svars, rvars, ovars>>

NextDecoder ==
    \/ Feed
    \/ CloseInput
    \/ StreamByte
    \/ StreamEOF

SpecDecoder == InitDecoder /\ [][NextDecoder]_vars

(***************************************************************************)
(* Runner.Run                                                              *)
(*                                                                         *)
(* The changelogs the history holds when                                   *)
(* Run is called have the timestamps 1, 2, ... in their order.  Time is    *)
(* counted in ticks; Run is called at least one tick after the last        *)
(* changelog was made.                                                     *)
(***************************************************************************)
MaxHistory == 2   \* changelogs in the history when Run is called
MaxInterval == 2  \* the largest MinInterval, in ticks

\* h.Changelogs = append(h.Changelogs, changelog)
AppendChangelog(h, c) == Append(h, c)

\* c.Logs = append(c.Logs, LogEntry{Value: entry})
AddLog(c, entry) == [c EXCEPT !.Logs = Append(@, entry)]

\* History.LastChangelogTimestamp: the timestamp of the first changelog
LastChangelogTimestamp_first(h) ==
    IF Len(h) = 0 THEN [ts |-> 0, ok |-> FALSE]
    ELSE [ts |-> h[1].Timestamp, ok |-> TRUE]

\* History.LastChangelogTimestamp
LastChangelogTimestamp(h) ==
    IF Len(h) = 0 THEN [ts |-> 0, ok |-> FALSE]
    ELSE [ts |-> h[Len(h)].Timestamp, ok |-> TRUE]

\* time.Since(ts) < r.MinInterval, for the result of LastChangelogTimestamp
tooRecent(last_, interval, t) == last_.ok /\ t - last_.ts < interval

\* Runner.shouldSkipRun, with time.Now() = t
shouldSkipRun(interval, h, t) ==
    IF interval = 0 THEN FALSE
    ELSE tooRecent(LastChangelogTimestamp(h), interval, t)

\* return err (nil: "")
Returns(err) ==
    /\ runReturned' = [done |-> TRUE, err |-> err]
    /\ runAt' = "returned"

InitRun ==
    /\ \E n \in 0..MaxHistory :
         previous = [i \in 1..n |-> Changelog(i)]
    /\ History = previous
    /\ historyFile = previous
    /\ fileWrites = 0
    /\ KeepHistory \in BOOLEAN
    /\ MinInterval \in 0..MaxInterval
    /\ \E since \in 1..(MaxInterval + 1) : now = Len(previous) + since
    /\ runAt = "start"
    /\ ctxDone = FALSE
    /\ rOutput = NilChan
    /\ forwarder = "none"
    /\ recorder = <<>>
    /\ agentExecErr = ""
    /\ changelog = NoChangelog
    /\ runReturned = [done |-> FALSE, err |-> ""]
    /\ NewCodeContainer(EmptyMap)
    /\ last = NoCall
    /\ NoUpdate
    /\ NoStream
    /\ NoDecoder
    /\ NoOther

\* if r.shouldSkipRun() { return nil }
SkipRun ==
    /\ runAt = "start" /\ shouldSkipRun(MinInterval, History, now)
    /\ Returns("")
    /\ UNCHANGED <<fileWrites, ctxDone, rOutput, forwarder, recorder, agentExecErr, changelog, KeepHistory,
                   MinInterval, now, History, historyFile, previous, cvars, uvars, svars, dvars,
                   ovars>>

\* newChatModel fails: return err
ChatModelFails ==
    /\ runAt = "start" /\ ~shouldSkipRun(MinInterval, History, now)
    /\ Returns("axe: chat model")
    /\ UNCHANGED <<fileWrites, ctxDone, rOutput, forwarder, recorder, agentExecErr, changelog, KeepHistory,
                   MinInterval, now, History, historyFile, previous, cvars, uvars, svars, dvars,
                   ovars>>

\* the recorder, the first line of output, the changelog and
\* r.Output = make(chan string, 4096)
MakeOutput ==
    /\ runAt = "start" /\ ~shouldSkipRun(MinInterval, History, now)
    /\ recorder' = Append(recorder, "axe: using model")
    /\ changelog' = Changelog(now)
    /\ rOutput' = [NilChan EXCEPT !.made = TRUE]
    /\ runAt' = "agent"
    /\ UNCHANGED <<fileWrites, ctxDone, forwarder, agentExecErr, KeepHistory, MinInterval,
                   now, History, historyFile, previous,
                   runReturned, cvars, uvars, svars, dvars, ovars>>

\* react.NewAgent
NewAgent ==
    /\ runAt = "agent"
    /\ \/ runAt' = "input" /\ UNCHANGED runReturned
       \/ Returns("axe: create agent")
    /\ UNCHANGED <<fileWrites, ctxDone, rOutput, forwarder, recorder, agentExecErr, changelog, KeepHistory,
                   MinInterval, now, History, historyFile, previous, cvars, uvars, svars, dvars,
                   ovars>>

\* r.State.Code.BuildCodeInput(nil).ToXML()
BuildCodeInput ==
    /\ runAt = "input"
    /\ \/ runAt' = "prompt" /\ UNCHANGED runReturned
       \/ Returns("axe: build code input")
    /\ UNCHANGED <<fileWrites, ctxDone, rOutput, forwarder, recorder, agentExecErr, changelog, KeepHistory,
                   MinInterval, now, History, historyFile, previous, cvars, uvars, svars, dvars,
                   ovars>>

\* buildInitialMessages fails
FormatPromptFails ==
    /\ runAt = "prompt"
    /\ Returns("axe: format prompt")
    /\ UNCHANGED <<fileWrites, ctxDone, rOutput, forwarder, recorder, agentExecErr, changelog, KeepHistory,
                   MinInterval, now, History, historyFile, previous, cvars, uvars, svars, dvars,
                   ovars>>

\* buildInitialMessages, printInitialMessages, startOutputForwarder
StartOutputForwarder ==
    /\ runAt = "prompt"
    /\ recorder' = Append(recorder, "messages")
    /\ forwarder' = "running"
    /\ runAt' = "stream"
    /\ UNCHANGED <<fileWrites, ctxDone, rOutput, agentExecErr, changelog, KeepHistory, MinInterval,
                   now, History, historyFile,
                   previous, runReturned, cvars, uvars, svars, dvars, ovars>>

\* agt.Stream(ctx, messages)
AgentStream ==
    /\ runAt = "stream"
    /\ \/ runAt' = "consume" /\ UNCHANGED runReturned
       \/ Returns("axe: agent execution failed")
    /\ UNCHANGED <<fileWrites, ctxDone, rOutput, forwarder, recorder, agentExecErr, changelog, KeepHistory,
                   MinInterval, now, History, historyFile, previous, cvars, uvars, svars, dvars,
                   ovars>>

\* while the stream is consumed, the agent (toolCallChecker, MessageModifier)
\* sends on r.Output
AgentSends ==
    /\ runAt = "consume"
    /\ rOutput.sent < MaxMsgs /\ Len(rOutput.buf) < OutputCap
    /\ rOutput' = [rOutput EXCEPT !.buf = Append(@, "x"), !.sent = @ + 1]
    /\ UNCHANGED <<fileWrites, runAt, ctxDone, forwarder, recorder, agentExecErr, changelog, KeepHistory,
                   MinInterval, now, History, historyFile, previous, runReturned, cvars, uvars, svars, dvars,
                   ovars>>

\* consumeAgentStream: msgReader.Recv() returns io.EOF or another error
consumeAgentStream ==
    /\ runAt = "consume"
    /\ agentExecErr' \in {"", "stream"}
    /\ runAt' = "close"
    /\ UNCHANGED <<fileWrites, ctxDone, rOutput, forwarder, recorder, changelog, KeepHistory, MinInterval,
                   now, History,
                   historyFile, previous, runReturned, cvars, uvars, svars, dvars, ovars>>

\* close(r.Output)
CloseOutput ==
    /\ runAt = "close"
    /\ rOutput' = [rOutput EXCEPT !.closed = TRUE, !.closes = @ + 1]
    /\ runAt' = "record"
    /\ UNCHANGED <<fileWrites, ctxDone, forwarder, recorder, agentExecErr, changelog, KeepHistory, MinInterval,
                   now, History,
                   historyFile, previous, runReturned, cvars, uvars, svars, dvars, ovars>>

\* recorder.Write of the outcome of the agent
RecordOutcome ==
    /\ runAt = "record"
    /\ recorder' = Append(recorder, IF agentExecErr # "" THEN "Agent execution failed"
                                     ELSE "Agent execution finished successfully.")
    /\ runAt' = "wait"
    /\ UNCHANGED <<fileWrites, ctxDone, rOutput, forwarder, agentExecErr, changelog, KeepHistory, MinInterval,
                   now, History,
                   historyFile, previous, runReturned, cvars, uvars, svars, dvars, ovars>>

\* changelog.AddLog(output) without wg.Wait()
WaitAndAddLog_noWait ==
    /\ runAt = "wait"
    /\ changelog' = IF recorder # <<>> THEN AddLog(changelog, recorder) ELSE changelog
    /\ runAt' = "history"
    /\ UNCHANGED <<fileWrites, ctxDone, rOutput, forwarder, recorder, agentExecErr, KeepHistory, MinInterval,
                   now, History,
                   historyFile, previous, runReturned, cvars, uvars, svars, dvars, ovars>>

\* wg.Wait(), then changelog.AddLog(output) if the output is not empty
WaitAndAddLog ==
    /\ runAt = "wait" /\ forwarder = "exited"
    /\ changelog' = IF recorder # <<>> THEN AddLog(changelog, recorder) ELSE changelog
    /\ runAt' = "history"
    /\ UNCHANGED <<fileWrites, ctxDone, rOutput, forwarder, recorder, agentExecErr, KeepHistory, MinInterval,
                   now, History,
                   historyFile, previous, runReturned, cvars, uvars, svars, dvars, ovars>>

\* r.History.AppendChangelog(changelog); Run does not read KeepHistory
AppendToHistory ==
    /\ runAt = "history"
    /\ History' = AppendChangelog(History, changelog)
    /\ runAt' = "save"
    /\ UNCHANGED <<fileWrites, ctxDone, rOutput, forwarder, recorder, agentExecErr, changelog, KeepHistory,
                   MinInterval, now, historyFile, previous, runReturned, cvars, uvars, svars, dvars,
                   ovars>>

\* r.History.SaveHistoryToFile(); MkdirAll or MarshalIndent may fail before
\* the file is touched, os.WriteFile after it
SaveHistoryToFile ==
    /\ runAt = "save"
    /\ \/ historyFile' = History /\ fileWrites' = fileWrites + 1 /\ Returns("")
       \/ UNCHANGED <<historyFile, fileWrites>> /\ Returns("axe: save history")
       \/ \* os.WriteFile fails after it truncated the file
          historyFile' = <<>> /\ fileWrites' = fileWrites + 1 /\ Returns("axe: save history")
    /\ UNCHANGED <<ctxDone, rOutput, forwarder, recorder, agentExecErr, changelog, KeepHistory,
                   MinInterval, now, History, previous, cvars, uvars, svars, dvars, ovars>>

\* a forwarder that takes the newest string of the channel first
Forward_newestFirst ==
    /\ forwarder = "running" /\ rOutput.buf # <<>>
    /\ recorder' = Append(recorder, rOutput.buf[Len(rOutput.buf)])
    /\ rOutput' = [rOutput EXCEPT !.buf = SubSeq(@, 1, Len(@) - 1)]
    /\ UNCHANGED <<fileWrites, runAt, ctxDone, forwarder, agentExecErr, changelog, KeepHistory, MinInterval,
                   now, History,
                   historyFile, previous, runReturned, cvars, uvars, svars, dvars, ovars>>

\* the forwarder takes a string from r.Output and writes it out
Forward ==
    /\ forwarder = "running" /\ rOutput.buf # <<>>
    /\ recorder' = Append(recorder, Head(rOutput.buf))
    /\ rOutput' = [rOutput EXCEPT !.buf = Tail(@)]
    /\ UNCHANGED <<fileWrites, runAt, ctxDone, forwarder, agentExecErr, changelog, KeepHistory, MinInterval,
                   now, History,
                   historyFile, previous, runReturned, cvars, uvars, svars, dvars, ovars>>

\* the forwarder returns: the channel is closed and empty, or ctx is done
ForwarderExits ==
    /\ forwarder = "running"
    /\ (rOutput.closed /\ rOutput.buf = <<>>) \/ ctxDone
    /\ forwarder' = "exited"
    /\ UNCHANGED <<fileWrites, runAt, ctxDone, rOutput, recorder, agentExecErr, changelog, KeepHistory,
                   MinInterval, now, History, historyFile, previous, runReturned, cvars, uvars, svars, dvars,
                   ovars>>

\* the caller cancels ctx
Cancel ==
    /\ ~ctxDone /\ ~runReturned.done
    /\ ctxDone' = TRUE
    /\ UNCHANGED <<fileWrites, runAt, rOutput, forwarder, recorder, agentExecErr, changelog, KeepHistory,
                   MinInterval, now, History, historyFile, previous, runReturned, cvars, uvars, svars, dvars,
                   ovars>>

NextRun ==
    \/ SkipRun
    \/ ChatModelFails
    \/ MakeOutput
    \/ NewAgent
    \/ BuildCodeInput
    \/ FormatPromptFails
    \/ StartOutputForwarder
    \/ AgentStream
    \/ AgentSends
    \/ consumeAgentStream
    \/ CloseOutput
    \/ RecordOutcome
    \/ WaitAndAddLog
    \/ AppendToHistory
    \/ SaveHistoryToFile
    \/ Forward
    \/ ForwarderExits
    \/ Cancel

SpecRun == InitRun /\ [][NextRun]_vars

(***************************************************************************)
(* One tool call from the model to the recorder: toolCallChecker, the      *)
(* streamer's pipe and decoder task, r.Output and the forwarder task of    *)
(* Run together.  The recorder holds what the forwarder wrote since the    *)
(* stream began.                                                           *)
(***************************************************************************)
\* the messages of a stream that carries the arguments of its tool calls in
\* fragments
Fragments ==
    { Message("x", <<>>),
      Message("", <<ToolCall("A", "f", <<"{", "k", "v">>)>>),
      Message("", <<ToolCall("", "", <<"v", "k">>)>>),
      Message("", <<ToolCall("", "", <<"k", "}">>)>>) }

\* startOutputForwarder was called, the agent's stream is being read
InitOrder ==
    /\ NoStream
    /\ NewCodeContainer(EmptyMap)
    /\ last = NoCall
    /\ NoUpdate
    /\ NoDecoder
    /\ RunnerWith([NilChan EXCEPT !.made = TRUE], "running")
    /\ NoOther

NextOrder ==
    \/ RecvFrom(Fragments)
    \/ RecvEOF
    \/ RecvError
    \/ streamFrame
    \/ NextStreamer
    \/ OnMsg
    \/ Header
    \/ PipeWrite
    \/ WriteReturns
    \/ Newline
    \/ Deferred
    \/ \E i \in 1..Len(streamers) : DecoderRead(i)
    \/ \E i \in 1..Len(streamers) : DecoderEOF(i)
    \/ \E i \in 1..Len(streamers) : DecoderStream(i)
    \/ OutputClosed
    \/ Forward
    \/ ForwarderExits
    \/ Cancel

SpecOrder == InitOrder /\ [][NextOrder]_vars

(***************************************************************************)
(* FinalizeTool.InvokableRun (package finalize)                            *)
(*                                                                         *)
(* A Go string is a sequence of characters here.  The arguments are kept   *)
(* by what json.Unmarshal makes of them: kind "object" is a JSON object    *)
(* with the fields Status, Changelog and TODO (a missing field is ""),     *)
(* "null" is the JSON null, "wrongtype" an object whose status is not a    *)
(* string, "malformed" a text that is no JSON, "empty" and "spaces" the    *)
(* texts "" and " ".                                                       *)
(***************************************************************************)
MaxCalls == 2   \* calls of the finalize tool

StatusSuccess == <<"s", "u", "c", "c", "e", "s", "s">>
StatusFailure == <<"f", "a", "i", "l", "u", "r", "e">>
\* the default summaries, each kept as one character
MarkedSuccess == <<"Task marked as success.">>
MarkedFailure == <<"Task marked as failure.">>

\* unicode.IsSpace on the characters of the model
IsSpace(c) == c \in {" ", "\n", "\t", "\r"}

RECURSIVE TrimLeftSpace(_)
TrimLeftSpace(s) == IF s # <<>> /\ IsSpace(Head(s)) THEN TrimLeftSpace(Tail(s)) ELSE s

RECURSIVE TrimRightSpace(_)
TrimRightSpace(s) ==
    IF s # <<>> /\ IsSpace(s[Len(s)]) THEN TrimRightSpace(SubSeq(s, 1, Len(s) - 1)) ELSE s

\* strings.TrimSpace on a sequence of characters
StringsTrimSpace(s) == TrimRightSpace(TrimLeftSpace(s))

\* unicode.ToLower on the characters of the model
ToLowerChar(c) ==
    CASE c = "A" -> "a" [] c = "C" -> "c" [] c = "E" -> "e" [] c = "F" -> "f"
      [] c = "I" -> "i" [] c = "L" -> "l" [] c = "R" -> "r" [] c = "S" -> "s"
      [] c = "U" -> "u" [] OTHER -> c

\* strings.ToLower
ToLower(s) == [i \in 1..Len(s) |-> ToLowerChar(s[i])]

\* status := strings.TrimSpace(req.Status), the case kept
normalStatus_keepsCase(text) == StringsTrimSpace(text)

\* status := strings.ToLower(strings.TrimSpace(req.Status))
normalStatus(text) == ToLower(StringsTrimSpace(text))

\* json.Unmarshal([]byte(argumentsInJSON), &req)
Unmarshal(args) ==
    CASE args.kind = "object" ->
             [err |-> "", Status |-> args.Status, Changelog |-> args.Changelog, TODO |-> args.TODO]
      [] args.kind = "null" ->
             [err |-> "", Status |-> <<>>, Changelog |-> <<>>, TODO |-> <<>>]
      [] OTHER ->
             [err |-> "parse arguments", Status |-> <<>>, Changelog |-> <<>>, TODO |-> <<>>]

FinalizeResult(t, out, err) == [tool |-> t, out |-> out, err |-> err]

\* the default summary of a status
defaultSummary(status) == IF status = StatusSuccess THEN MarkedSuccess ELSE MarkedFailure

\* if t.Changelog != nil: Success, AddLog(summary), TODO
updateChangelog(t, status, summary, todo) ==
    IF ~t.hasChangelog THEN t
    ELSE [t EXCEPT !.Changelog =
              [AddLog(t.Changelog, summary) EXCEPT !.Success = (status = StatusSuccess),
                                                   !.TODO = todo]]

\* from the update of the changelog on; react.SetReturnDirectly fails when
\* ctx carries no state of a react agent
finalizeSummary(t, req, status, summary, hasState) ==
    IF ~hasState
    THEN FinalizeResult(updateChangelog(t, status, summary, req.TODO), <<>>, "finalize_task: no state")
    ELSE FinalizeResult(updateChangelog(t, status, summary, req.TODO), summary, "")

\* from the check of the status on
finalizeStatus(t, req, status, trimmed, hasState) ==
    IF status # StatusSuccess /\ status # StatusFailure
    THEN FinalizeResult(t, <<>>, "finalize_task: status must be \"success\" or \"failure\"")
    ELSE finalizeSummary(t, req, status,
                         IF trimmed = <<>> THEN defaultSummary(status) ELSE trimmed, hasState)

\* from json.Unmarshal on
finalizeRequest(t, req, hasState) ==
    IF req.err # ""
    THEN FinalizeResult(t, <<>>, "finalize_task: parse arguments")
    ELSE finalizeStatus(t, req, normalStatus(req.Status), StringsTrimSpace(req.Changelog), hasState)

\* FinalizeTool.InvokableRun(ctx, argumentsInJSON)
finalizeInvokableRun(t, args, hasState) ==
    IF args.kind \in {"empty", "spaces"}
    THEN FinalizeResult(t, <<>>, "finalize_task: missing arguments")
    ELSE finalizeRequest(t, Unmarshal(args), hasState)

\* the inputs
FinalizeStatuses ==
    {StatusSuccess, StatusFailure,
     <<" ", "S", "U", "C", "C", "E", "S", "S", "\n">>,
     <<"F", "a", "i", "l", "u", "r", "e", " ">>,
     <<>>, <<"d", "o", "n", "e">>, <<"s", "u", "c", "c", "e", " ", "s", "s">>}
FinalizeTexts == {<<>>, <<" ", "\n">>, <<"o", "k">>, <<" ", "o", " ", "k", "\n">>}
FinalizeTodos == {<<>>, <<" ", "x">>}
FinalizeArgs ==
    [kind : {"object"}, Status : FinalizeStatuses, Changelog : FinalizeTexts, TODO : FinalizeTodos]
    \cup [kind : {"empty", "spaces", "null", "wrongtype", "malformed"},
          Status : {<<>>}, Changelog : {<<>>}, TODO : {<<>>}]

InitFinalize ==
    /\ \E has \in BOOLEAN, ok \in BOOLEAN, logs \in {<<>>, <<<<"e">>>>} :
         finalizeTool = [hasChangelog |-> has,
                         Changelog |-> [Changelog(1) EXCEPT !.Success = ok, !.Logs = logs]]
    /\ finalizeArgs = [kind |-> "empty", Status |-> <<>>, Changelog |-> <<>>, TODO |-> <<>>]
    /\ finalizeCalls = 0
    /\ finalizeReturned = [out |-> <<>>, err |-> ""]
    /\ NewCodeContainer(EmptyMap)
    /\ last = NoCall
    /\ NoUpdate
    /\ NoStream
    /\ NoDecoder
    /\ NoRun
    /\ NoDisk
    /\ NoApplyEdit
    /\ NoCli
    /\ NoXML
    /\ NoMatch
    /\ NoParse

\* what a call leaves behind
finalized(args, res) ==
    /\ finalizeArgs' = args
    /\ finalizeTool' = res.tool
    /\ finalizeReturned' = [out |-> res.out, err |-> res.err]
    /\ finalizeCalls' = finalizeCalls + 1

\* the agent calls the tool
FinalizeCall ==
    /\ finalizeCalls < MaxCalls
    /\ \E args \in FinalizeArgs, hasState \in BOOLEAN :
         finalized(args, finalizeInvokableRun(finalizeTool, args, hasState))
    /\ UNCHANGED <<cvars, uvars, svars, dvars, rvars, kvars, avars, evars, xvars, mvars, pvars>>

NextFinalize ==
    \/ FinalizeCall

SpecFinalize == InitFinalize /\ [][NextFinalize]_vars

(***************************************************************************)
(* ApplyEditTool.InvokableRun (package code)                               *)
(*                                                                         *)
(* The arguments are kept by what json.Unmarshal makes of them, as those   *)
(* of the finalize tool; the code_output of an object is kept by what      *)
(* ParseCodeOutput makes of it: envelope "blank" is a text of white space, *)
(* "unparsable" a text that is no XML, "ok" a CodeOutput element whose     *)
(* character data is the patch.                                            *)
(***************************************************************************)
ApplyEditResult(out, err, panic, patchErr, fs, d) ==
    [out |-> out, err |-> err, panic |-> panic, patchErr |-> patchErr, fs |-> fs, disk |-> d]

\* from t.Code.WriteToFiles on; w is what it returned
applyEditWritten(fs, w) ==
    IF w.err # ""
    THEN ApplyEditResult("", "apply_edit: write files", FALSE, "", fs, w.disk)
    ELSE ApplyEditResult("Applied edits", "", FALSE, "", fs, w.disk)

\* from t.Code.Apply on; r is what ApplyPatch returned
applyEditApplied(fs, d, r, order) ==
    IF r.panic THEN ApplyEditResult("", "", TRUE, r.err, r.fs, d)
    ELSE IF r.err # "" THEN ApplyEditResult("", "apply_edit: apply edits", FALSE, r.err, r.fs, d)
    ELSE IF r.changes = EmptyMap THEN ApplyEditResult("No changes to apply.", "", FALSE, "", r.fs, d)
    ELSE applyEditWritten(r.fs, ccWriteToFiles(r.fs, d, order))

\* ApplyEditTool.InvokableRun up to t.Code.Apply: the error it returns, ""
\* when it goes on to apply the patch
applyEditRejects(args) ==
    CASE args.kind \in {"empty", "spaces"} -> "apply_edit: missing arguments"
      [] args.kind \in {"malformed", "wrongtype"} -> "apply_edit: parse arguments"
      [] args.kind = "null" \/ args.envelope = "blank" -> "apply_edit: code_output is required"
      [] args.envelope = "unparsable" -> "apply_edit: parse CodeOutput XML"
      [] OTHER -> ""

\* the inputs
ApplyEditArgs ==
    [kind : {"empty", "spaces", "malformed", "wrongtype", "null"}, envelope : {""}, patch : {<<>>}]
    \cup [kind : {"object"}, envelope : {"blank", "unparsable"}, patch : {<<>>}]
    \cup [kind : {"object"}, envelope : {"ok"}, patch : FewPatchTexts]

InitApplyEdit ==
    /\ \E files \in InitialFiles : NewCodeContainer(files) /\ disk = files
    /\ flushedOnce = FALSE
    /\ NoApplyEdit
    /\ last = NoCall
    /\ NoUpdate
    /\ NoStream
    /\ NoDecoder
    /\ NoRun
    /\ NoFinalize
    /\ NoCli
    /\ NoXML
    /\ NoMatch
    /\ NoParse

\* what a call leaves behind
applyEditDone(args, res) ==
    /\ applyEditArgs' = args
    /\ applyEditReturned' = [out |-> res.out, err |-> res.err, panic |-> res.panic,
                             patchErr |-> res.patchErr]
    /\ applyEditCalls' = applyEditCalls + 1
    /\ WithinBounds(res.fs)
    /\ Store("c", res.fs)
    /\ disk' = res.disk

\* the agent calls the tool with arguments it returns an error for at once
ApplyEditRejected ==
    /\ applyEditCalls < MaxCalls
    /\ \E args \in ApplyEditArgs :
         /\ applyEditRejects(args) # ""
         /\ applyEditDone(args, ApplyEditResult("", applyEditRejects(args), FALSE, "",
                                                fsOf("c"), disk))
    /\ UNCHANGED <<last, flushedOnce, uvars, svars, dvars, rvars, fvars, evars, xvars, mvars, pvars>>

\* the agent calls the tool with a CodeOutput that holds a patch
ApplyEditPatch ==
    /\ applyEditCalls < MaxCalls
    /\ \E args \in ApplyEditArgs :
         /\ applyEditRejects(args) = ""
         /\ \E r \in ApplyPatch(fsOf("c"), args.patch, FALSE) :
              \E order \in Orders(r.fs.deleted) :
                  applyEditDone(args, applyEditApplied(fsOf("c"), disk, r, order))
    /\ UNCHANGED <<last, flushedOnce, uvars, svars, dvars, rvars, fvars, evars, xvars, mvars, pvars>>

NextApplyEdit ==
    \/ ApplyEditRejected
    \/ ApplyEditPatch

SpecApplyEdit == InitApplyEdit /\ [][NextApplyEdit]_vars

(***************************************************************************)
(* CliTool.InvokableRun (package clitool)                                  *)
(*                                                                         *)
(* Strings are sequences of characters and a Go map is a function.  The    *)
(* Command of the definition is kept as shellwords.ParseWithEnvs returns   *)
(* it: envs, the leading words that are assignments, and argv, the words   *)
(* of the command.                                                         *)
(***************************************************************************)
\* strings.IndexByte(kv, '='), -1 when there is none
IndexEq(kv) ==
    IF \E i \in 1..Len(kv) : kv[i] = "="
    THEN MinOf({i \in 1..Len(kv) : kv[i] = "="}) - 1
    ELSE -1

\* the entry parseEnvKVs makes of the trimmed pair kv
putKV(out, kv, eq) ==
    IF kv = <<>> \/ eq <= 0 THEN out
    ELSE MapSet(out, StringsTrimSpace(Slice(kv, 0, eq)), Slice(kv, eq + 1, Len(kv)))

\* parseEnvKVs(pairs)
RECURSIVE parseEnvKVs(_, _)
parseEnvKVs(out, pairs) ==
    IF pairs = <<>> THEN out
    ELSE parseEnvKVs(putKV(out, StringsTrimSpace(Head(pairs)),
                           IndexEq(StringsTrimSpace(Head(pairs)))),
                     Tail(pairs))

\* MergeEnv(base, overrides): base overlaid by overrides
MergeEnv(base, overrides) ==
    [k \in DOMAIN base \cup DOMAIN overrides |->
        IF k \in DOMAIN overrides THEN overrides[k] ELSE base[k]]

\* cmd.Env = append(os.Environ(), flattenEnv(env)...): of two entries of a
\* key the subprocess gets the later one
childEnv(environ, env) == MergeEnv(environ, env)

CliResult(child, err) == [child |-> child, err |-> err]

\* from the parsing of the command on: argv is the command with req.Args
cliExecute(def, environ, argv) ==
    IF argv = <<>> THEN CliResult(NoChild, "clitool: empty command")
    ELSE CliResult([ran |-> TRUE, argv |-> argv,
                    env |-> childEnv(environ, MergeEnv(def.Env, parseEnvKVs(EmptyMap, def.envs)))],
                   "")

\* CliTool.InvokableRun(ctx, argumentsInJSON)
cliInvokableRun(def, environ, args) ==
    IF args.kind \in {"malformed", "wrongtype"}
    THEN CliResult(NoChild, "clitool: invalid arguments")
    ELSE cliExecute(def, environ, def.argv \o args.Args)

\* the inputs
EnvKeys == {<<"F">>, <<"G">>}
InlineWords == {<<"F", "=", "i">>, <<"G", "=", "j">>, <<"F", "=", "i", "=", "2">>, <<"F", "=">>}
CliEnvs == SeqsOf(InlineWords, 0, 2)
CliEnvMaps == UNION {[D -> {<<"b">>}] : D \in SUBSET EnvKeys}
CliEnvirons == {EmptyMap, [k \in {<<"F">>} |-> <<"o">>]}
CliArgs ==
    [kind : {"empty", "object"}, Args : {<<>>, <<<<"x">>>>}]
    \cup [kind : {"malformed", "wrongtype"}, Args : {<<>>}]

InitCli ==
    /\ cliDef \in [envs : CliEnvs, argv : {<<>>, <<<<"s", "h">>>>}, Env : CliEnvMaps]
    /\ cliEnviron \in CliEnvirons
    /\ cliArgs = [kind |-> "empty", Args |-> <<>>]
    /\ cliChild = NoChild
    /\ cliReturned = [done |-> FALSE, err |-> ""]
    /\ NewCodeContainer(EmptyMap)
    /\ last = NoCall
    /\ NoUpdate
    /\ NoStream
    /\ NoDecoder
    /\ NoRun
    /\ NoFinalize
    /\ NoDisk
    /\ NoApplyEdit
    /\ NoXML
    /\ NoMatch
    /\ NoParse

\* what the call leaves behind
cliDone(args, res) ==
    /\ cliArgs' = args
    /\ cliChild' = res.child
    /\ cliReturned' = [done |-> TRUE, err |-> res.err]

\* the agent calls the tool
CliCall ==
    /\ ~cliReturned.done
    /\ \E args \in CliArgs : cliDone(args, cliInvokableRun(cliDef, cliEnviron, args))
    /\ UNCHANGED <<cliDef, cliEnviron, cvars, uvars, svars, dvars, rvars, fvars, kvars, avars,
                   xvars, mvars, pvars>>

NextCli ==
    \/ CliCall

SpecCli == InitCli /\ [][NextCli]_vars

(***************************************************************************)
(* CodeFile.MarshalXML (package container) and a reader of its output      *)
(*                                                                         *)
(* A text is a sequence of characters; the mark that opens a CDATA section *)
(* is kept as the one character CDStart.  The reader is an XML processor   *)
(* as encoding/xml is one: the character data of an element is the text of *)
(* its CDATA sections and the text between them, with every "\r\n" and     *)
(* every other "\r" turned into "\n".                                      *)
(***************************************************************************)
MaxChars == 6   \* characters of a file content

CDStart == "<![CDATA["
CDEnd == <<"]", "]", ">">>

\* strings.HasPrefix(s, "]]>")
AtCDEnd(s) == Len(s) >= 3 /\ SubSeq(s, 1, 3) = CDEnd

\* strings.ReplaceAll(content, "]]>", "]]]]><![CDATA[>")
RECURSIVE ReplaceAll(_)
ReplaceAll(s) ==
    IF s = <<>> THEN <<>>
    ELSE IF AtCDEnd(s)
         THEN <<"]", "]", "]", "]", ">", CDStart, ">">> \o ReplaceAll(SubSeq(s, 4, Len(s)))
         ELSE <<Head(s)>> \o ReplaceAll(Tail(s))

\* the Data of CodeFile.MarshalXML: "<![CDATA[" + safe + "]]" + ">"
MarshalXML(content) == <<CDStart>> \o ReplaceAll(content) \o CDEnd

\* the reader's rewriting of line ends
RECURSIVE lineEnds(_)
lineEnds(s) ==
    IF s = <<>> THEN <<>>
    ELSE IF Head(s) = "\r"
         THEN <<"\n">> \o lineEnds(IF Len(s) >= 2 /\ s[2] = "\n" THEN SubSeq(s, 3, Len(s))
                                   ELSE Tail(s))
         ELSE <<Head(s)>> \o lineEnds(Tail(s))

\* the reader inside a CDATA section: the text up to the first "]]>", then
\* readOutside on what follows; a section that is not closed is an error
RECURSIVE readInside(_, _)
RECURSIVE readOutside(_, _)
readInside(s, got) ==
    IF s = <<>> THEN [done |-> TRUE, err |-> "XML syntax error: unexpected EOF in CDATA section",
                      data |-> <<>>]
    ELSE IF AtCDEnd(s) THEN readOutside(SubSeq(s, 4, Len(s)), got)
    ELSE readInside(Tail(s), Append(got, Head(s)))

\* the reader between CDATA sections, up to the end tag of the element
readOutside(s, got) ==
    IF s = <<>> THEN [done |-> TRUE, err |-> "", data |-> lineEnds(got)]
    ELSE IF Head(s) = CDStart THEN readInside(Tail(s), got)
    ELSE readOutside(Tail(s), Append(got, Head(s)))

\* the character data of the element whose inner XML is s
CharData(s) == readOutside(s, <<>>)

\* the inputs
ContentChars == {"a", "]", ">", "\r"}
Contents == SeqsOf(ContentChars, 0, MaxChars)

InitXML ==
    /\ fileContent \in Contents
    /\ fileXML = <<>>
    /\ fileRead = NotRead
    /\ NewCodeContainer(EmptyMap)
    /\ last = NoCall
    /\ NoUpdate
    /\ NoStream
    /\ NoDecoder
    /\ NoRun
    /\ NoFinalize
    /\ NoDisk
    /\ NoApplyEdit
    /\ NoCli
    /\ NoMatch
    /\ NoParse

\* CodeInput.ToXML for the file
RenderFile ==
    /\ fileXML = <<>>
    /\ fileXML' = MarshalXML(fileContent)
    /\ UNCHANGED <<fileContent, fileRead, cvars, uvars, svars, dvars, rvars, fvars, kvars, avars,
                   evars, mvars, pvars>>

\* a reader takes the character data of the File element
ReadFile ==
    /\ fileXML # <<>> /\ ~fileRead.done
    /\ fileRead' = CharData(fileXML)
    /\ UNCHANGED <<fileContent, fileXML, cvars, uvars, svars, dvars, rvars, fvars, kvars, avars,
                   evars, mvars, pvars>>

NextXML ==
    \/ RenderFile
    \/ ReadFile

SpecXML == InitXML /\ [][NextXML]_vars

(***************************************************************************)
(* One call of findContext                                                 *)
(***************************************************************************)
MaxFileLines == 3   \* lines of the file the context is looked up in

\* lines that are equal, equal when right-trimmed, equal when trimmed, and
\* different
MatchLines == {"a", "a ", " a", "b"}

InitFind ==
    /\ fcLines \in SeqsOf(MatchLines, 0, MaxFileLines)
    /\ fcContext \in SeqsOf(MatchLines, 0, MaxLines)
    /\ fcStart \in 0..Len(fcLines)
    /\ fcEof \in BOOLEAN
    /\ fcFound = NotFound
    /\ NewCodeContainer(EmptyMap)
    /\ last = NoCall
    /\ NoUpdate
    /\ NoStream
    /\ NoDecoder
    /\ NoRun
    /\ NoFinalize
    /\ NoDisk
    /\ NoApplyEdit
    /\ NoCli
    /\ NoXML
    /\ NoParse

FoundAs(r) == [called |-> TRUE, idx |-> r.idx, fuzz |-> r.fuzz]

\* newIndex, fuzz := findContext(lines, nextCtx, index, eof)
FindContext ==
    /\ ~fcFound.called
    /\ fcFound' = FoundAs(findContext(fcLines, fcContext, fcStart, fcEof))
    /\ UNCHANGED <<fcLines, fcContext, fcStart, fcEof, cvars, uvars, svars, dvars, rvars, fvars,
                   kvars, avars, evars, xvars, pvars>>

SpecFind == InitFind /\ [][FindContext]_vars

(***************************************************************************)
(* One run of Parser.parse, one step for each iteration and each exit of   *)
(* the loops of parse, parseUpdateFile, parseAddFile and peekNextSection   *)
(***************************************************************************)
MaxPatchLines == 3   \* lines of a patch between its two sentinels

PatchLines ==
    { L(UpdateFile, "p"), L(MoveTo, "q"), L(DeleteFile, "p"), L(AddFile, "q"),
      L(" ", "a"), L("-", "a"), L("+", "b"), L(AtOnly, ""), L(AtOnly, "x"), L(AtDef, "b"),
      L(EndOfFile, ""), L(Stars, ""), L(EndPatch, ""), L("", "junk") }

ParserFiles == {EmptyMap, MapSet(EmptyMap, "p", <<"a", "b">>)}

\* textToPatch found the two sentinels and made the Parser: Index is 1
InitParse ==
    /\ \E body \in SeqsOf(PatchLines, 0, MaxPatchLines), files \in ParserFiles :
         parser = [Lines |-> <<L(BeginPatch, "")>> \o body \o <<L(EndPatch, "")>>,
                   CurrentFiles |-> files, Index |-> 1, Actions |-> EmptyMap, Fuzz |-> 0]
    /\ psAt = "parse"
    /\ psErr = ""
    /\ psUpd = <<>>
    /\ psPeek = <<>>
    /\ psAdd = <<>>
    /\ NewCodeContainer(EmptyMap)
    /\ last = NoCall
    /\ NoUpdate
    /\ NoStream
    /\ NoDecoder
    /\ NoRun
    /\ NoFinalize
    /\ NoDisk
    /\ NoApplyEdit
    /\ NoCli
    /\ NoXML
    /\ NoMatch

\* what a step of the parser leaves alone
parseFrame ==
    UNCHANGED <<cvars, uvars, svars, dvars, rvars, fvars, kvars, avars, evars, xvars, mvars>>

\* parse returns the error err with the parser at index
Fails(err, index) ==
    /\ psAt' = "returned"
    /\ psErr' = err
    /\ parser' = [parser EXCEPT !.Index = index]
    /\ UNCHANGED <<psUpd, psPeek, psAdd>>

\* the "*** Update File: " header of path was read; mv is the line after it
UpdateHeader(path, mv) ==
    IF path \in DOMAIN parser.Actions
    THEN Fails("Duplicate update for file", parser.Index + 1)
    ELSE IF parser.Index + 1 >= Len(parser.Lines)
    THEN Fails("Unexpected end of input while parsing patch", parser.Index + 1)
    ELSE IF path \notin DOMAIN parser.CurrentFiles
    THEN Fails("Update File Error - missing file",
               IF HasPrefix(mv, MoveTo) THEN parser.Index + 2 ELSE parser.Index + 1)
    ELSE /\ psAt' = "update"
         /\ parser' = [parser EXCEPT !.Index = IF HasPrefix(mv, MoveTo) THEN @ + 2 ELSE @ + 1]
         /\ psUpd' = [path |-> path,
                      moveTo |-> IF HasPrefix(mv, MoveTo) THEN mv.t ELSE "",
                      text |-> parser.CurrentFiles[path],
                      index |-> 0, chunks |-> <<>>, from |-> 0]
         /\ UNCHANGED <<psErr, psPeek, psAdd>>

DeleteHeader(path) ==
    IF path \in DOMAIN parser.Actions
    THEN Fails("Duplicate delete for file", parser.Index + 1)
    ELSE IF path \notin DOMAIN parser.CurrentFiles
    THEN Fails("Delete File Error - missing file", parser.Index + 1)
    ELSE /\ parser' = [parser EXCEPT !.Index = @ + 1,
                                     !.Actions = MapSet(@, path, DeleteAction)]
         /\ UNCHANGED <<psAt, psErr, psUpd, psPeek, psAdd>>

AddHeader(path) ==
    IF path \in DOMAIN parser.Actions
    THEN Fails("Duplicate add for file", parser.Index + 1)
    ELSE IF path \in DOMAIN parser.CurrentFiles
    THEN Fails("Add File Error - file already exists", parser.Index + 1)
    ELSE /\ psAt' = "add"
         /\ parser' = [parser EXCEPT !.Index = @ + 1]
         /\ psAdd' = [path |-> path, lines |-> <<>>]
         /\ UNCHANGED <<psErr, psUpd, psPeek>>

\* the line a header of parse is read from, past the end: no line
LineAfter(index) ==
    IF index < Len(parser.Lines) THEN At(parser.Lines, index) ELSE L("", "")

\* one iteration of the loop of parse, up to the call of the section parser
ParseSection ==
    /\ psAt = "parse"
    /\ ~isDone(parser.Lines, parser.Index, {EndPatch})
    /\ IF HasPrefix(At(parser.Lines, parser.Index), UpdateFile)
       THEN UpdateHeader(At(parser.Lines, parser.Index).t, LineAfter(parser.Index + 1))
       ELSE IF HasPrefix(At(parser.Lines, parser.Index), DeleteFile)
       THEN DeleteHeader(At(parser.Lines, parser.Index).t)
       ELSE IF HasPrefix(At(parser.Lines, parser.Index), AddFile)
       THEN AddHeader(At(parser.Lines, parser.Index).t)
       ELSE Fails("Unknown line while parsing", parser.Index)
    /\ parseFrame

\* the loop of parse is left: the sentinel is consumed
ParseDone ==
    /\ psAt = "parse"
    /\ isDone(parser.Lines, parser.Index, {EndPatch})
    /\ IF parser.Index < Len(parser.Lines) /\ HasPrefix(At(parser.Lines, parser.Index), EndPatch)
       THEN Fails("", parser.Index + 1)
       ELSE Fails("Missing *** End Patch sentinel", parser.Index)
    /\ parseFrame

\* one iteration of the loop of parseUpdateFile, up to the call of
\* peekNextSection: hdr is what the "@@" line gave, seek what the search of
\* the definition gave
UpdateHunkWith(hdr, seek) ==
    IF hdr.defStr = "" /\ hdr.sectionStr = "" /\ psUpd.index # 0
    THEN Fails("Invalid line in update section", parser.Index)
    ELSE /\ psAt' = "peek"
         /\ parser' = [parser EXCEPT !.Index = hdr.pIndex, !.Fuzz = @ + seek.fuzz]
         /\ psUpd' = [psUpd EXCEPT !.index = seek.index, !.from = parser.Index]
         /\ psPeek' = [index |-> hdr.pIndex, mode |-> ModeKeep, chunks |-> <<>>,
                       old |-> <<>>, del |-> <<>>, ins |-> <<>>, err |-> ""]
         /\ UNCHANGED <<psErr, psAdd>>

UpdateHunk ==
    /\ psAt = "update"
    /\ ~isDone(parser.Lines, parser.Index, UpdateStops)
    /\ UpdateHunkWith(hunkHeader(At(parser.Lines, parser.Index), parser.Index),
                      seekDef(psUpd.text, psUpd.index,
                              hunkHeader(At(parser.Lines, parser.Index), parser.Index).defStr))
    /\ parseFrame

\* the loop of parseUpdateFile is left: parse stores the action
UpdateDone ==
    /\ psAt = "update"
    /\ isDone(parser.Lines, parser.Index, UpdateStops)
    /\ psAt' = "parse"
    /\ parser' = [parser EXCEPT !.Actions =
                     MapSet(@, psUpd.path, [Type |-> ActionUpdate, NewFile |-> Nil,
                                            Chunks |-> psUpd.chunks, MovePath |-> psUpd.moveTo])]
    /\ UNCHANGED <<psErr, psUpd, psPeek, psAdd>>
    /\ parseFrame

\* the loop of peekNextSection stops before the line raw
PeekBreak(raw) == (\E pre \in PeekBreaks : HasPrefix(raw, pre)) \/ IsExactly(raw, Stars)

\* one iteration of the loop of peekNextSection
PeekLine ==
    /\ psAt = "peek"
    /\ psPeek.index < Len(parser.Lines)
    /\ ~PeekBreak(At(parser.Lines, psPeek.index))
    /\ IF \/ HasPrefix(At(parser.Lines, psPeek.index), "***")
          \/ lineMode(At(parser.Lines, psPeek.index)) = "invalid"
       THEN Fails("Invalid Line", parser.Index)
       ELSE /\ psPeek' = taken(flushed(psPeek, lineMode(At(parser.Lines, psPeek.index))),
                               lineMode(At(parser.Lines, psPeek.index)),
                               At(parser.Lines, psPeek.index).t)
            /\ UNCHANGED <<parser, psAt, psErr, psUpd, psAdd>>
    /\ parseFrame

\* the section sec was read and its context looked up (ctx): the rest of the
\* iteration of parseUpdateFile
SectionMatched(sec, ctx) ==
    IF ctx.idx = -1 THEN Fails("Invalid context", parser.Index)
    ELSE /\ psAt' = "update"
         /\ parser' = [parser EXCEPT !.Index = sec.index, !.Fuzz = @ + ctx.fuzz]
         /\ psUpd' = [psUpd EXCEPT !.index = ctx.idx + Len(sec.old),
                                   !.chunks = @ \o shifted(sec.chunks, ctx.idx)]
         /\ UNCHANGED <<psErr, psPeek, psAdd>>

SectionRead(sec) ==
    IF sec.err # "" THEN Fails(sec.err, parser.Index)
    ELSE SectionMatched(sec, findContext(psUpd.text, sec.old, psUpd.index, sec.eof))

\* the loop of peekNextSection is left and the function returns
PeekReturns ==
    /\ psAt = "peek"
    /\ \/ psPeek.index >= Len(parser.Lines)
       \/ PeekBreak(At(parser.Lines, psPeek.index))
    /\ SectionRead(peekResult(parser.Lines, parser.Index, psPeek))
    /\ parseFrame

\* one iteration of the loop of parseAddFile
AddLine ==
    /\ psAt = "add"
    /\ ~isDone(parser.Lines, parser.Index, AddStops)
    /\ IF ~HasPrefix(At(parser.Lines, parser.Index), "+")
       THEN Fails("Invalid Add File line (missing '+')", parser.Index + 1)
       ELSE /\ parser' = [parser EXCEPT !.Index = @ + 1]
            /\ psAdd' = [psAdd EXCEPT !.lines = Append(@, At(parser.Lines, parser.Index).t)]
            /\ UNCHANGED <<psAt, psErr, psUpd, psPeek>>
    /\ parseFrame

\* the loop of parseAddFile is left: parse stores the action
AddDone ==
    /\ psAt = "add"
    /\ isDone(parser.Lines, parser.Index, AddStops)
    /\ psAt' = "parse"
    /\ parser' = [parser EXCEPT !.Actions =
                     MapSet(@, psAdd.path, [Type |-> ActionAdd, NewFile |-> Join(psAdd.lines),
                                            Chunks |-> <<>>, MovePath |-> ""])]
    /\ UNCHANGED <<psErr, psUpd, psPeek, psAdd>>
    /\ parseFrame

NextParse ==
    \/ ParseSection
    \/ ParseDone
    \/ UpdateHunk
    \/ UpdateDone
    \/ PeekLine
    \/ PeekReturns
    \/ AddLine
    \/ AddDone

\* the parser is sequential code that nothing holds up: it takes its next
\* step whenever it has one
SpecParse == InitParse /\ [][NextParse]_vars /\ WF_vars(NextParse)

(***************************************************************************)
(* Claims about the patch engine and the container                         *)
(***************************************************************************)
Present(fs) == DOMAIN ccFiles(fs)

HasHeader(pl, kind, path) == \E i \in 1..Len(pl) : pl[i].k = kind /\ pl[i].t = path

HeaderKinds == {UpdateFile, DeleteFile, AddFile}

DuplicateHeaders(pl) ==
    \E i, j \in 1..Len(pl) :
        i # j /\ pl[i].k \in HeaderKinds /\ pl[j].k \in HeaderKinds /\ pl[i].t = pl[j].t

Applied == last.op \in {"Apply", "ApplyPatch"}
Failed == last.err # "" \/ last.panic
Now == fsOf(last.k)

\* C1: applying a patch is all-or-nothing: when ApplyPatch returns, either
\* every change of the commit was applied (success) or the mapping is what
\* it was before the call (any error, also one returned by Write or Remove
\* in the middle of applyCommit).
C1_AllOrNothing ==
    Applied =>
        IF Failed THEN Now = last.pre
        ELSE \E o \in Orders(DOMAIN last.changes) : last.calls = applyCommit(last.changes, o)

\* C2: a patch with an Update File or Delete File header for a path that is
\* not present in the container (never written, or marked deleted) makes
\* Apply return an error and leaves the container unchanged.
C2_MissingTargetRejected ==
    (/\ last.op = "Apply"
     /\ \E path \in Paths :
          /\ HasHeader(last.patch, UpdateFile, path) \/ HasHeader(last.patch, DeleteFile, path)
          /\ path \notin Present(last.pre))
    => (last.err # "" /\ Now = last.pre)

\* C3: a patch with an Add File header for a path that is present in the
\* container makes Apply return an error and the path keeps its content.
C3_AddExistingRejected ==
    \A path \in Paths :
        (/\ last.op = "Apply"
         /\ HasHeader(last.patch, AddFile, path)
         /\ path \in Present(last.pre))
        => (/\ last.err # ""
            /\ path \in Present(Now)
            /\ Now.files[path] = last.pre.files[path])

\* C4: after a successful Apply, an Update of path with Move to q left the
\* updated content at q and path no longer present (marked deleted), for
\* every q, q = path included; an Update without Move left the updated
\* content at path.
C4_MovePlacesContent ==
    (last.op = "Apply" /\ ~Failed) =>
        \A path \in DOMAIN last.changes :
            LET ch == last.changes[path] IN
            ch.Type = ActionUpdate =>
                IF ch.MovePath # ""
                THEN /\ ch.MovePath \in Present(Now)
                     /\ Now.files[ch.MovePath] = ch.NewContent
                     /\ path \notin DOMAIN Now.files
                     /\ path \in Now.deleted
                ELSE /\ path \in Present(Now)
                     /\ Now.files[path] = ch.NewContent

\* C8: a patch in which two action headers (any mix of Update File, Delete
\* File, Add File) name the same path is rejected with an error and the
\* file mapping is left unchanged.
C8_DuplicateRejected ==
    (last.op = "Apply" /\ DuplicateHeaders(last.patch)) => (last.err # "" /\ Now = last.pre)

Exists(k) == containers[k] # NilContainer

Other(k) == IF k = "c" THEN "c2" ELSE "c"

WritesTo(calls, path) == {i \in 1..Len(calls) : calls[i].op = "Write" /\ calls[i].path = path}

C6_Disjoint ==
    \A k \in Names : Exists(k) => DOMAIN fsOf(k).files \cap fsOf(k).deleted = {}

C6_DeletedIsGone ==
    \A k \in Names : Exists(k) =>
        \A path \in fsOf(k).deleted :
            /\ path \notin DOMAIN ccFiles(fsOf(k))
            /\ (last.op = "Open" /\ last.k = k /\ last.path = path) => last.err # ""

C6_WriteRevives ==
    last.op = "Write" =>
        /\ last.path \in Present(Now)
        /\ Now.files[last.path] = last.content
        /\ last.path \notin Now.deleted

C6_Sticky ==
    \A k \in Names : (Exists(k) /\ ~(last'.op = "Clone" /\ k = "c2")) =>
        \A path \in fsOf(k).deleted :
            \/ path \in fsOf(k)'.deleted
            \/ last'.k = k /\ WritesTo(last'.calls, path) # {}

\* C6: after any sequence of NewCodeContainer, Write, Remove, Apply and
\* Clone no path is both in the live files and in the deleted set of a
\* container; a path marked deleted stays deleted (Open returns an error,
\* Files omits it) until a Write to that path, after which it is present
\* with the written content and no longer marked deleted.
C6_DeletionSticky ==
    /\ [](C6_Disjoint /\ C6_DeletedIsGone /\ C6_WriteRevives)
    /\ [][C6_Sticky]_vars

C6_Witness ==
    /\ last.op = "Write"
    /\ last.path \in last.pre.deleted
    /\ last.path \in Present(Now)

C7_Independent ==
    \A k \in Names :
        (last'.op \in {"Write", "Remove", "Apply", "Open"} /\ last'.k = k /\ Exists(Other(k)))
        => fsOf(Other(k))' = fsOf(Other(k))

C7_Snapshot ==
    last'.op = "Clone" =>
        /\ ccFiles(fsOf("c2"))' = ccFiles(fsOf("c"))
        /\ fsOf("c2")'.deleted = fsOf("c").deleted
        /\ fsOf("c")' = fsOf("c")

\* C7: Clone produces an independent snapshot: at the moment of cloning c2
\* has the live files and deletion marks of c, and afterwards no Write,
\* Remove or Apply on one of the two changes the other.
C7_CloneIndependent == [][C7_Independent /\ C7_Snapshot]_vars

C7_Witness ==
    /\ Exists("c2")
    /\ last.op \in {"Write", "Apply"}
    /\ Now # last.pre
    /\ fsOf("c").files # fsOf("c2").files
    /\ fsOf("c").deleted # fsOf("c2").deleted

(***************************************************************************)
(* Claims about getUpdatedFile                                             *)
(***************************************************************************)
Called == updated # NoResult

EndOf(chunk) == chunk.OrigIndex + Len(chunk.DelLines)

\* the chunk list is ordered, non-overlapping and in bounds
WellFormed(lines, chunks) ==
    /\ \A i \in 1..Len(chunks) : EndOf(chunks[i]) <= Len(lines)
    /\ \A i \in 1..(Len(chunks) - 1) : EndOf(chunks[i]) <= chunks[i + 1].OrigIndex

\* lines with the range of one chunk replaced by its insLines
Spliced(lines, chunk) ==
    Slice(lines, 0, chunk.OrigIndex) \o chunk.InsLines \o Slice(lines, EndOf(chunk), Len(lines))

\* every chunk spliced in, the last one first, so that the positions of the
\* chunks before it still are those of the original
RECURSIVE SplicedAll(_, _)
SplicedAll(lines, chunks) ==
    IF chunks = <<>> THEN lines
    ELSE SplicedAll(Spliced(lines, chunks[Len(chunks)]), SubSeq(chunks, 1, Len(chunks) - 1))

RECURSIVE Sum(_, _)
Sum(chunks, field) ==
    IF chunks = <<>> THEN 0 ELSE Len(Head(chunks)[field]) + Sum(Tail(chunks), field)

\* C5: for every original text and every chunk list that is ordered,
\* non-overlapping and in bounds, getUpdatedFile returns the original lines
\* with each chunk's deleted range replaced by the chunk's insLines and every
\* other line kept in order; the result has original - deleted + inserted
\* lines; an empty chunk list returns the text unchanged.
C5_UpdatedFile ==
    (Called /\ WellFormed(callText, callAction.Chunks)) =>
        LET want == SplicedAll(callText, callAction.Chunks) IN
        /\ updated.err = "" /\ ~updated.panic
        /\ updated.content = Join(want)
        /\ Len(want) = Len(callText) - Sum(callAction.Chunks, "DelLines")
                                     + Sum(callAction.Chunks, "InsLines")
        /\ want # <<>> => Len(updated.content) = Len(want)
        /\ callAction.Chunks = <<>> => updated.content = callText

C5_Witness ==
    /\ Called
    /\ Len(callAction.Chunks) = MaxChunks
    /\ WellFormed(callText, callAction.Chunks)
    /\ \A i \in 1..Len(callAction.Chunks) :
         callAction.Chunks[i].DelLines # <<>> /\ callAction.Chunks[i].InsLines # <<>>
    /\ updated.content # callText

(***************************************************************************)
(* Claims about the tool-call classifier                                   *)
(***************************************************************************)
IsIdLine(o) ==
    o.by = "classifier" /\ o.s > 0 /\ o.str = HeaderLine("header1", streamers[o.s])

\* C9: on a change of the tool-call id the streamer of the old id is closed
\* and drained before the streamer of the new id begins: in every
\* interleaving of the classifier and the decoder tasks, every chunk decoded
\* for the old id is on the output before the header line of the new id.
C9_DrainedBeforeNextHeader ==
    \A i, j \in 1..Len(Output) :
        (Output[i].by = "decoder" /\ IsIdLine(Output[j]) /\ Output[i].s < Output[j].s) => i < j

\* the case of C9 in an interleaving in which the decoder ran first
C9_Witness ==
    \E i, j \in 1..Len(Output) :
        /\ i < j
        /\ Output[i].by = "decoder" /\ IsIdLine(Output[j]) /\ Output[i].s < Output[j].s
        /\ ~Running(Output[i].s)

\* C10: a decoder task that stopped, with an error or because the object
\* was complete, never blocks the classifier: a Write that OnMsg makes for
\* that streamer returns, so that toolCallChecker goes on to EOF.  A Write
\* whose bytes no reader took returns only if the decoder task still runs.
C10_WriteReturnsAfterDecoderStopped ==
    pc = "writing" =>
        (streamers[callStreamer].pending = <<>> \/ Running(callStreamer))

\* the decoder failed and toolCallChecker returned all the same
C10_Witness ==
    /\ returned.done /\ ~returned.panic /\ returned.err = ""
    /\ \E i \in 1..Len(streamers) :
         streamers[i].err = "unsupported json stream value type"

\* what the classifier itself sent for streamer i (0: for no streamer)
SentFor(i) == SelectSeq(Output, LAMBDA o : o.by = "classifier" /\ o.s = i)

\* C11: a message that carries more than one tool call goes around the
\* ToolCallStreamer and is forwarded as a frame without failing, with or
\* without textual content: toolCallChecker does not panic and returns no
\* error for it, its content (if any) is the last thing the classifier sent
\* when the loop comes back to sr.Recv().
C11_FallbackDoesNotFail ==
    Len(msg.ToolCalls) > 1 =>
        /\ ~returned.panic
        /\ returned.err \in {"", "recv"}
        /\ (pc = "recv" /\ msg.Content # "") =>
               (SentFor(0) # <<>> /\ SentFor(0)[Len(SentFor(0))].str = <<msg.Content>>)

\* the fallback with textual content: the frame was forwarded and the next
\* message is awaited
C11_Witness ==
    /\ Len(msg.ToolCalls) > 1 /\ msg.Content # ""
    /\ pc = "recv"
    /\ SentFor(0) # <<>> /\ SentFor(0)[Len(SentFor(0))].str = <<msg.Content>>

\* no argument bytes were given to the pipe of s and none were taken from it
\* (exact as long as the writer of s is open)
Untouched(s) == s.pending = <<>> /\ s.buf = <<>> /\ s.phase = "start"

IsHeader(h, s) ==
    /\ Len(h) <= 3
    /\ Len(h) >= 1 => h[1].str = <<"\nTool call id: ", s.ID, "\n">>
    /\ Len(h) >= 2 => h[2].str[1] = "Tool call function name: "
    /\ Len(h) >= 3 => h[3].str = <<"Tool call arguments:\n">>

\* h, the lines the classifier sent for streamer i, is the header or a
\* beginning of it, and it is whole before bytes are in the pipe
HeaderOf(i, h) ==
    /\ IsHeader(h, streamers[i])
    /\ Len(h) \in {1, 2} =>
           (i = callStreamer /\ pc = (IF Len(h) = 1 THEN "header2" ELSE "header3"))
    /\ (streamers[i].pending # <<>> \/ streamers[i].buf # <<>>) => Len(h) = 3

C12_HeaderOnce == \A i \in 1..Len(streamers) : HeaderOf(i, SentFor(i))

\* a step in which the classifier sends a line for the current streamer:
\* the first line is sent before any argument bytes went to the pipe, for a
\* fragment that carries some, and the third is followed by the Write
C12_HeaderBeforeFirstBytes ==
    /\ (pc = "write" /\ pc' = "writing") => Len(SentFor(callStreamer)) = 3
    /\ (/\ Len(Output') = Len(Output) + 1
        /\ Output'[Len(Output')].by = "classifier" /\ Output'[Len(Output')].s > 0) =>
           /\ Output'[Len(Output')].s = callStreamer
           /\ Len(SentFor(callStreamer)) < 3
           /\ Len(SentFor(callStreamer)) = 0 =>
                  /\ ~streamers[callStreamer].closed /\ Untouched(streamers[callStreamer])
                  /\ msg.ToolCalls[1].Arguments # <<>>
           /\ Len(SentFor(callStreamer)) = 2 => pc' = "write"

\* C12: for the fragments one ToolCallStreamer handles, the three-line
\* header (id, function name, "Tool call arguments:") is sent exactly once,
\* right before the first argument bytes are written to the pipe, and it is
\* not sent when no fragment carries argument bytes.
C12_HeaderExactlyOnce == []C12_HeaderOnce /\ [][C12_HeaderBeforeFirstBytes]_vars

\* two fragments with argument bytes went to one streamer
C12_Witness ==
    /\ received = MaxMsgs /\ pc = "recv"
    /\ Len(streamers) = 1
    /\ Len(SentFor(1)) = 3
    /\ msg.ToolCalls # <<>> /\ msg.ToolCalls[1].ID = "" /\ msg.ToolCalls[1].Arguments # <<>>

\* C13: when the message stream ends with EOF, toolCallChecker sends a last
\* "\n" and returns hasToolCalls = TRUE exactly when one of the messages it
\* received had a non-empty tool-call list; when sr.Recv() fails with
\* another error it returns FALSE and that error.
C13_ResultAtEOF ==
    /\ (returned.done /\ ~returned.panic /\ returned.err = "") =>
           /\ returned.hasToolCalls <=> toolCallMsgs > 0
           /\ SentFor(0) # <<>> /\ SentFor(0)[Len(SentFor(0))].str = <<"\n">>
    /\ (returned.done /\ returned.err # "") =>
           (returned.err = "recv" /\ ~returned.hasToolCalls)

\* EOF after a message with a tool call and then one without
C13_Witness ==
    /\ returned.done /\ ~returned.panic /\ returned.err = ""
    /\ received = MaxMsgs /\ toolCallMsgs = 1 /\ msg.ToolCalls = <<>>
    /\ returned.hasToolCalls

\* sr.Recv() failed after a message with a tool call
C13_WitnessError ==
    returned.done /\ returned.err = "recv" /\ toolCallMsgs > 0

(***************************************************************************)
(* Claims about the JSON stream decoder                                    *)
(***************************************************************************)
IsPrefix(a, b) == Len(a) <= Len(b) /\ SubSeq(b, 1, Len(a)) = a

WithNewline(t) == IF t # <<>> /\ t[Len(t)] = "\n" THEN <<>> ELSE <<"\n">>

\* what the consumer is to get for a whole field
Rendered(f) == f.key \o <<":", "\n">> \o f.value \o WithNewline(f.value)

RenderedAll(fields) == Flat([i \in 1..Len(fields) |-> Rendered(fields[i])])

IsNested(f) == f.kind \in {"object", "array"}

AllStrings(fields) == \A i \in 1..Len(fields) : fields[i].kind = "string"

\* the longest prefix of a value whose JSON text fits in n bytes
RECURSIVE Taken(_, _)
Taken(v, n) ==
    IF v = <<>> \/ Len(Escaped(Head(v))) > n THEN <<>>
    ELSE <<Head(v)>> \o Taken(Tail(v), n - Len(Escaped(Head(v))))

\* The text of the fields that is in the first c bytes of the input, off
\* being the bytes before the first of these fields: the whole fields as
\* rendered, the key of the field the bytes end in and what there is of its
\* value (part: there is some).  A nested value ends it after its key.
NoText == [text |-> <<>>, part |-> FALSE]

Within(prefix, r) == [text |-> prefix \o r.text, part |-> r.part]

RECURSIVE Due(_, _, _, _)
DueValue(fields, spaced, vs, c) ==
    IF IsNested(Head(fields)) THEN NoText
    ELSE IF c >= vs + Len(ValueText(Head(fields)))
    THEN Within(Head(fields).value \o WithNewline(Head(fields).value),
                Due(Tail(fields), spaced,
                    vs + Len(ValueText(Head(fields))) + 2 * Len(Gap(spaced)) + 1, c))
    ELSE [text |-> Taken(Head(fields).value,
                         IF Head(fields).kind = "string" THEN c - vs - 1 ELSE c - vs),
          part |-> Taken(Head(fields).value,
                         IF Head(fields).kind = "string" THEN c - vs - 1 ELSE c - vs) # <<>>]

Due(fields, spaced, off, c) ==
    IF fields = <<>> \/ c < off + Len(Quoted(Head(fields).key)) THEN NoText
    ELSE Within(Head(fields).key \o <<":", "\n">>,
                DueValue(fields, spaced,
                         off + Len(Quoted(Head(fields).key)) + 2 * Len(Gap(spaced)) + 1, c))

DueNow == Due(object.fields, object.spaced, 1 + Len(Gap(object.spaced)), delivered)

\* the bytes written end inside an escape sequence
EndsInEscape == delivered > 0 /\ jsonInput[delivered] = "\\"

\* C14: the decoder is incremental.  When bytes of a string value were
\* written to the input, the closing quote was not and the input is open,
\* the consumer gets these bytes without waiting further: once the decoder
\* has read all that was written, the text it gave to the consumer holds the
\* part of the value that was written.
C14_Incremental ==
    (/\ AllStrings(object.fields)
     /\ ~inputClosed /\ ~dec.returned /\ dec.pos = delivered
     /\ dec.at = "string") =>
        IsPrefix(DueNow.text, Flat(dec.out))

\* an open string value of which nothing was written yet: nothing is due
C14_Witness ==
    /\ AllStrings(object.fields) /\ Len(object.fields) = MaxFields
    /\ ~inputClosed /\ ~dec.returned /\ dec.pos = delivered
    /\ dec.at = "string" /\ ~dec.first
    /\ ~DueNow.part
    /\ IsPrefix(DueNow.text, Flat(dec.out))

IsEOF(err) == err \in {"EOF", "unexpected EOF"}

C16_PartialAtEOF ==
    (dec.returned /\ IsEOF(dec.err)) =>
        /\ dec.partial <=> dec.out # <<>>
        /\ ~EndsInEscape =>
               Flat(dec.out)
                 = DueNow.text \o (IF DueNow.part THEN WithNewline(DueNow.text) ELSE <<>>)

C16_NeverRetracted == IsPrefix(dec.out, dec.out')

\* C16: when the input ends before the object is complete, the error Stream
\* returns is a PartialJSONError exactly when a chunk was given to the
\* consumer before it, and the plain error otherwise; no chunk that was
\* given is taken back, and the text of a value read before the end of the
\* input is given to the consumer before Stream returns.
C16_PartialOnEOF == []C16_PartialAtEOF /\ [][C16_NeverRetracted]_vars

\* the input ended inside the string value of the second field
C16_Witness ==
    /\ dec.returned /\ dec.err = "unexpected EOF" /\ dec.partial
    /\ dec.at = "string" /\ ~dec.first
    /\ DueNow.part /\ ~EndsInEscape
    /\ Len(dec.out) = 4

\* the input ended before anything was emitted: the error is not wrapped
C16_WitnessPlain ==
    dec.returned /\ IsEOF(dec.err) /\ ~dec.partial /\ dec.pos > 0

FirstNested(fields, i) ==
    /\ i \in 1..Len(fields) /\ IsNested(fields[i])
    /\ \A j \in 1..(i - 1) : ~IsNested(fields[j])

\* C17: a field whose value is a nested object or array makes Stream return
\* an error: what the consumer got is the fields before it and its key, no
\* chunk for its value and nothing of a later field.  (The input may end
\* before the decoder comes to that value: Stream then returns the error of
\* the read.)
C17_NestedRejected ==
    \A i \in 1..Len(object.fields) :
        (FirstNested(object.fields, i) /\ dec.returned) =>
            /\ dec.err # ""
            /\ ~IsEOF(dec.err) =>
                   /\ dec.err = "unsupported json stream value type"
                   /\ Flat(dec.out)
                        = RenderedAll(SubSeq(object.fields, 1, i - 1))
                            \o object.fields[i].key \o <<":", "\n">>
            /\ IsEOF(dec.err) => (inputClosed /\ delivered < Len(jsonInput))

\* a nested array in the first field, a string in the second
C17_Witness ==
    /\ Len(object.fields) = 2
    /\ object.fields[1].kind = "array" /\ object.fields[2].kind = "string"
    /\ delivered = Len(jsonInput)
    /\ dec.returned /\ dec.err = "unsupported json stream value type"
    /\ Len(dec.out) = 1

(***************************************************************************)
(* Claims about Runner.Run                                                 *)
(***************************************************************************)
\* Run went through to the saving of the history
Completed == runReturned.done /\ rOutput.closed

\* C18: in every execution of Run that makes the output channel, the
\* channel is closed exactly once by the time Run returns, on every path,
\* the early error returns of agent creation, prompt building and stream
\* start included.
C18_ClosedExactlyOnce ==
    (runReturned.done /\ rOutput.made) => (rOutput.closed /\ rOutput.closes = 1)

\* a run that went through: closed once
C18_Witness ==
    Completed /\ rOutput.closes = 1 /\ rOutput.sent = MaxMsgs /\ forwarder = "exited"

\* C19: when the message stream of the agent ends with an error that is not
\* io.EOF, Run returns a non-nil error.
C19_StreamErrorReturned ==
    (runReturned.done /\ agentExecErr # "") => runReturned.err # ""

\* the stream failed and so did the saving of the history: an error is returned
C19_Witness ==
    runReturned.done /\ agentExecErr # "" /\ runReturned.err = "axe: save history"

\* C20: at the end of a completed run the history holds the new changelog
\* only if KeepHistory is false, and the changelogs it held before, in their
\* order, followed by the new one if KeepHistory is true; the history is
\* then saved.
C20_HistoryKeptOrReplaced ==
    Completed =>
        /\ History = IF KeepHistory THEN previous \o <<changelog>> ELSE <<changelog>>
        /\ \A i \in 1..Len(previous) : previous[i].Timestamp # changelog.Timestamp
        /\ runReturned.err = "" => historyFile = History

\* a completed run with KeepHistory: the history grew by the new changelog
C20_Witness ==
    /\ Completed /\ KeepHistory /\ runReturned.err = ""
    /\ Len(previous) = MaxHistory
    /\ History = previous \o <<changelog>> /\ historyFile = History
    /\ changelog.Logs # <<>>

\* Run returned nil before it made anything: the run was skipped
Skipped == runReturned.done /\ runReturned.err = "" /\ ~rOutput.made

\* the last changelog the history held at the call is less than MinInterval old
LastIsRecent ==
    /\ previous # <<>>
    /\ now - previous[Len(previous)].Timestamp < MinInterval

\* C21: if MinInterval is greater than 0 and the last changelog of the
\* history is less than MinInterval old, Run returns success without
\* starting the agent and leaves the history (in memory and on file), the
\* code container and the output channel untouched; if MinInterval is 0 or
\* the history has no changelog, the run is never skipped.
C21_SkipWithinMinInterval ==
    /\ (MinInterval > 0 /\ LastIsRecent) =>
          /\ runAt \in {"start", "returned"}
          /\ runReturned.done => runReturned.err = ""
          /\ History = previous /\ historyFile = previous
          /\ rOutput = NilChan /\ forwarder = "none" /\ recorder = <<>>
          /\ changelog = NoChangelog
          /\ NewCodeContainer(EmptyMap)
    /\ (MinInterval = 0 \/ previous = <<>>) => ~Skipped

\* a skipped run: the older changelog alone would not have caused the skip
C21_Witness ==
    /\ Skipped /\ runAt = "returned"
    /\ Len(previous) = MaxHistory
    /\ now - previous[1].Timestamp >= MinInterval
    /\ History = previous /\ historyFile = previous

\* a run with a history but no MinInterval went through
C21_WitnessNotSkipped ==
    Completed /\ MinInterval = 0 /\ previous # <<>> /\ runReturned.err = ""

\* C22: within one Run the history file is written at most once, and only
\* after the output channel was closed, the consumer task has finished and
\* the new changelog was added to the history; a skipped run, or a run that
\* fails before the stream starts, never writes the history file.
C22_HistoryWrittenOnceAtEnd ==
    /\ fileWrites <= 1
    /\ historyFile # previous => fileWrites > 0
    /\ fileWrites > 0 =>
          /\ rOutput.closed /\ rOutput.closes = 1
          /\ forwarder = "exited"
          /\ History = Append(previous, changelog)
          /\ runReturned.done
    /\ (runReturned.done /\ ~rOutput.closed) => (fileWrites = 0 /\ historyFile = previous)

\* the file was written, by a run in which the agent sent output
C22_Witness ==
    /\ fileWrites = 1 /\ runReturned.done /\ runReturned.err = ""
    /\ rOutput.sent > 0 /\ forwarder = "exited"
    /\ historyFile = Append(previous, changelog)

\* a run that failed when the stream was started: nothing was written
C22_WitnessEarlyReturn ==
    /\ runReturned.done /\ runReturned.err = "axe: agent execution failed"
    /\ fileWrites = 0 /\ historyFile = previous /\ previous # <<>>

(***************************************************************************)
(* Claims about the finalize tool                                          *)
(***************************************************************************)
\* the spellings of the two statuses among the inputs
SuccessSpellings == {StatusSuccess, <<" ", "S", "U", "C", "C", "E", "S", "S", "\n">>}
FailureSpellings == {StatusFailure, <<"F", "a", "i", "l", "u", "r", "e", " ">>}

\* r is t without the white space at its two ends
IsTrimOf(r, t) ==
    \E a \in 0..Len(t) : \E b \in a..Len(t) :
        /\ r = SubSeq(t, a + 1, b)
        /\ \A k \in 1..Len(t) : (k <= a \/ k > b) => IsSpace(t[k])
        /\ r # <<>> => (~IsSpace(r[1]) /\ ~IsSpace(r[Len(r)]))

\* entry is the summary of the request a: its trimmed changelog text, or
\* the default sentence of its status when that is empty
IsSummaryOf(entry, a) ==
    IF \A k \in 1..Len(a.Changelog) : IsSpace(a.Changelog[k])
    THEN entry = IF a.Status \in SuccessSpellings THEN MarkedSuccess ELSE MarkedFailure
    ELSE IsTrimOf(entry, a.Changelog)

\* the changelog after a call with a valid status
FinalizedChangelog(before, after, a) ==
    /\ after.Success = (a.Status \in SuccessSpellings)
    /\ Len(after.Logs) = Len(before.Logs) + 1
    /\ SubSeq(after.Logs, 1, Len(before.Logs)) = before.Logs
    /\ IsSummaryOf(after.Logs[Len(after.Logs)], a)
    /\ after.TODO = a.TODO
    /\ after.Timestamp = before.Timestamp

\* a call of InvokableRun and what it must have done
FinalizeContract ==
    finalizeCalls' = finalizeCalls + 1 =>
        IF finalizeArgs'.kind = "object"
           /\ finalizeArgs'.Status \in SuccessSpellings \cup FailureSpellings
        THEN /\ finalizeTool'.hasChangelog = finalizeTool.hasChangelog
             /\ IF finalizeTool.hasChangelog
                THEN FinalizedChangelog(finalizeTool.Changelog, finalizeTool'.Changelog,
                                        finalizeArgs')
                ELSE finalizeTool' = finalizeTool
             /\ finalizeReturned'.err \in {"", "finalize_task: no state"}
             /\ finalizeReturned'.err = "" => IsSummaryOf(finalizeReturned'.out, finalizeArgs')
        ELSE /\ finalizeReturned'.err \notin {"", "finalize_task: no state"}
             /\ finalizeTool' = finalizeTool

C23_WitnessFailure ==
    /\ finalizeCalls = 1 /\ finalizeReturned.err = ""
    /\ finalizeArgs.kind = "object" /\ finalizeArgs.Status \in FailureSpellings
    /\ finalizeTool.hasChangelog /\ ~finalizeTool.Changelog.Success
    /\ finalizeReturned.out = MarkedFailure

\* a call with another status returned an error and changed nothing
C23_WitnessRejected ==
    /\ finalizeCalls = 1 /\ finalizeReturned.err # ""
    /\ finalizeArgs.kind = "object" /\ finalizeArgs.Status = <<"d", "o", "n", "e">>
    /\ finalizeTool.Changelog.Logs = <<>>

(***************************************************************************)
(* Claims about the container and the disk                                 *)
(***************************************************************************)
\* the disk d holds the live files of fs and none of its deleted paths
DiskMatches(fs, d) ==
    /\ \A p \in DOMAIN ccFiles(fs) : p \in DOMAIN d /\ d[p] = fs.files[p]
    /\ fs.deleted \cap DOMAIN d = {}

\* C30: repeated flushing is safe: after a path was removed from the
\* container and WriteToFiles has succeeded once, every later WriteToFiles
\* (after further successful edits or none) also succeeds and leaves the
\* disk with exactly the container's live files written and every
\* deletion-marked path absent.
C30_RepeatedFlush ==
    (last.op = "WriteToFiles" /\ flushedOnce) =>
        (last.err = "" /\ DiskMatches(fsOf("c"), disk))

\* a later WriteToFiles that succeeded: the path was written again in between
C30_Witness ==
    /\ last.op = "WriteToFiles" /\ flushedOnce /\ last.err = ""
    /\ fsOf("c").deleted = {} /\ DOMAIN fsOf("c").files = Paths
    /\ DiskMatches(fsOf("c"), disk)

(***************************************************************************)
(* Claims about the apply_edit tool                                        *)
(***************************************************************************)
\* the last call was given malformed JSON arguments, an unparsable
\* CodeOutput envelope, or a patch that ApplyPatch returned an error for
ApplyEditFailed ==
    /\ applyEditCalls > 0
    /\ \/ applyEditArgs.kind = "malformed"
       \/ applyEditArgs.envelope = "unparsable"
       \/ applyEditReturned.patchErr # ""

\* C24: when apply-edit is given malformed JSON arguments, an unparsable
\* CodeOutput envelope, or a patch that fails to parse or apply, the tool
\* returns the failure to the model as result text with a nil error.
C24_FailureIsResultText ==
    ApplyEditFailed =>
        (applyEditReturned.err = "" /\ ~applyEditReturned.panic /\ applyEditReturned.out # "")

\* a call with a patch that deletes a file the container does not hold
C24_Witness ==
    /\ ApplyEditFailed /\ applyEditArgs.envelope = "ok"
    /\ applyEditArgs.patch = <<L(BeginPatch, ""), L(DeleteFile, "p"), L(EndPatch, "")>>
    /\ applyEditReturned.patchErr # "" /\ ~applyEditReturned.panic
    /\ "p" \notin DOMAIN fsOf("c").files

(***************************************************************************)
(* Claims about the CLI tool                                               *)
(***************************************************************************)
EnvValues == {<<"i">>, <<"j">>, <<"i", "=", "2">>, <<>>}

\* the inline prefix of the command sets key to val: a word key=val that no
\* later word for the same key follows
InlineSets(key, val) ==
    \E i \in 1..Len(cliDef.envs) :
        /\ cliDef.envs[i] = key \o <<"=">> \o val
        /\ \A j \in (i + 1)..Len(cliDef.envs) :
               SubSeq(cliDef.envs[j], 1, Len(key) + 1) # key \o <<"=">>

\* C25: for a definition whose command has an inline KEY=VAL prefix and
\* whose Env map also sets KEY, the subprocess runs with the value of the
\* Env map (the definition env has precedence over the inline one); an
\* inline KEY that the Env map does not set is passed to the subprocess
\* unchanged.
C25_DefinitionEnvWins ==
    cliChild.ran =>
        \A key \in EnvKeys, val \in EnvValues :
            InlineSets(key, val) =>
                /\ key \in DOMAIN cliChild.env
                /\ cliChild.env[key] = IF key \in DOMAIN cliDef.Env THEN cliDef.Env[key] ELSE val

\* a subprocess ran for a command with the prefix F=i and an Env map that
\* sets F and not G
C25_Witness ==
    /\ cliChild.ran /\ cliReturned.err = ""
    /\ InlineSets(<<"F">>, <<"i">>) /\ InlineSets(<<"G">>, <<"j">>)
    /\ DOMAIN cliDef.Env = {<<"F">>}
    /\ cliChild.env[<<"G">>] = <<"j">>

(***************************************************************************)
(* Claims about the CodeInput document                                     *)
(***************************************************************************)
\* C26: CDATA round trip: for every file content s, contents with one or
\* more occurrences of "]]>" included, rendering s in the CodeInput XML and
\* reading the File element's character data back yields exactly s.
C26_CDATARoundTrip ==
    fileRead.done => (fileRead.err = "" /\ fileRead.data = fileContent)

\* a content with two occurrences of "]]>" was rendered and read back as it was
C26_Witness ==
    /\ fileRead.done /\ fileRead.err = ""
    /\ fileContent = CDEnd \o CDEnd
    /\ fileXML # <<CDStart>> \o fileContent \o CDEnd
    /\ fileRead.data = fileContent

C28_StreamerExists ==
    pc = "onmsg" => callStreamer > 0

\* a fragment with an empty id is given to the streamer of the call before
C28_Witness ==
    /\ pc = "onmsg" /\ callStreamer > 0
    /\ msg.ToolCalls[1].ID = "" /\ msg.ToolCalls[1].Arguments # <<>>
    /\ streamers[callStreamer].HeaderPrinted

\* the strings of the output channel among the lines of a recorder buffer
Forwarded(log) == Cardinality({i \in 1..Len(log) : log[i] = "x"})

\* C29: when Run appends the recorder's buffer to the changelog as a log
\* entry, every string that was sent on the output channel during the run
\* is already in the recorder, also when the context passed to Run is
\* cancelled before the run completes.
C29_LogHoldsEverySend ==
    changelog.Logs # <<>> =>
        /\ Forwarded(changelog.Logs[1]) = rOutput.sent
        /\ rOutput.buf = <<>>

\* a run without a cancellation: the log entry holds all that was sent
C29_Witness ==
    /\ changelog.Logs # <<>> /\ ~ctxDone /\ rOutput.sent = MaxMsgs
    /\ Forwarded(changelog.Logs[1]) = MaxMsgs

(***************************************************************************)
(* Claims about the parser of patch texts                                  *)
(***************************************************************************)
TypeOf(kind) ==
    CASE kind = UpdateFile -> ActionUpdate
      [] kind = DeleteFile -> ActionDelete
      [] OTHER -> ActionAdd

HeaderLines(pl) == {i \in 1..Len(pl) : pl[i].k \in HeaderKinds}

\* C31: for every patch text that ApplyPatch accepts, every Update File,
\* Delete File and Add File header line of the text is reflected as an
\* action in the applied commit; no action that follows an earlier
\* "*** End Patch" line inside the text is silently dropped.
C31_EveryHeaderApplied ==
    (last.op = "Apply" /\ ~Failed) =>
        \A i \in HeaderLines(last.patch) :
            /\ last.patch[i].t \in DOMAIN last.changes
            /\ last.changes[last.patch[i].t].Type = TypeOf(last.patch[i].k)

\* an accepted patch of two actions, both in the commit
C31_Witness ==
    /\ last.op = "Apply" /\ ~Failed
    /\ Cardinality(HeaderLines(last.patch)) = 2
    /\ Cardinality(DOMAIN last.changes) = 2
    /\ \A i \in HeaderLines(last.patch) :
         /\ last.patch[i].t \in DOMAIN last.changes
         /\ last.changes[last.patch[i].t].Type = TypeOf(last.patch[i].k)

\* the mapping and the error of an outcome of ApplyPatch
ResultOf(out) == [err |-> out.err, panic |-> out.panic, fs |-> out.fs]

\* C32: ApplyPatch is deterministic: for every file mapping and patch text
\* the outcome (success or error, and the resulting mapping) depends on the
\* inputs alone and not on the order in which the actions of the patch are
\* converted and applied, also when the Move destination of an Update is
\* the path of another action of the same patch.
C32_Deterministic ==
    last.op = "Apply" =>
        \A out \in ApplyPatch(last.pre, last.patch, FALSE) :
            ResultOf(out) = [err |-> last.err, panic |-> last.panic, fs |-> Now]

\* a patch of two actions on two paths: both orders give the same mapping
C32_Witness ==
    /\ last.op = "Apply" /\ ~Failed
    /\ Cardinality(DOMAIN last.changes) = 2
    /\ \E path \in DOMAIN last.changes : last.changes[path].MovePath # ""
    /\ Cardinality(ApplyPatch(last.pre, last.patch, FALSE)) > 1
    /\ \A out \in ApplyPatch(last.pre, last.patch, FALSE) : out.fs = Now /\ out.err = ""

\* what textToPatch gives processPatch for the text pl and the files ld
\* loaded for it
ParsedWith(pl, ld) ==
    IF ld.err # "" THEN [err |-> ld.err, actions |-> EmptyMap, fuzz |-> 0, orig |-> EmptyMap]
    ELSE [err |-> textToPatch(pl, ld.m).err, actions |-> textToPatch(pl, ld.m).actions,
          fuzz |-> textToPatch(pl, ld.m).fuzz, orig |-> ld.m]

ParsedText(pl, fs) == ParsedWith(pl, loadFiles(identifyFilesNeeded(pl), fs))

\* the patch the last Apply parsed
Parsed == ParsedText(TrimRight(TrimLeft(last.patch)), last.pre)

ParseSucceeded == last.op = "Apply" /\ last.patch # <<>> /\ Parsed.err = ""

UpdatesOf(pt) == {path \in DOMAIN pt.actions : pt.actions[path].Type = ActionUpdate}

StrictlyIncreasing(chunks) ==
    \A i \in 1..(Len(chunks) - 1) : chunks[i].OrigIndex < chunks[i + 1].OrigIndex

\* C33: for every update action produced by a successful parse the chunk
\* list satisfies the chunk invariants: the origIndex values are strictly
\* increasing, origIndex + len(delLines) is at most the line count of the
\* file for each chunk, and each chunk starts at or after the end of the
\* deleted range of the chunk before it, also across several hunks and
\* with hunks anchored by "*** End of File".
C33_ChunkInvariants ==
    ParseSucceeded =>
        \A path \in UpdatesOf(Parsed) :
            /\ StrictlyIncreasing(Parsed.actions[path].Chunks)
            /\ WellFormed(Parsed.orig[path], Parsed.actions[path].Chunks)

\* an update of two hunks, the second anchored at the end of the file, whose
\* chunks are ordered and apart
C33_Witness ==
    /\ ParseSucceeded /\ ~Failed
    /\ HasPrefix(last.patch[Len(last.patch) - 1], EndOfFile)
    /\ \E path \in UpdatesOf(Parsed) :
         /\ Len(Parsed.actions[path].Chunks) = 2
         /\ StrictlyIncreasing(Parsed.actions[path].Chunks)
         /\ WellFormed(Parsed.orig[path], Parsed.actions[path].Chunks)

(***************************************************************************)
(* Claims about chunk lists that break the invariants                      *)
(***************************************************************************)
\* C34: getUpdatedFile returns an error, and never panics or returns
\* content, for every chunk list that violates the chunk invariants: a
\* chunk whose origIndex exceeds the number of lines, a chunk whose
\* origIndex is smaller than the end of the deleted range of the chunk
\* before it, or a chunk whose deleted range runs past the end of the file.
C34_InvalidChunksRejected ==
    (Called /\ ~WellFormed(callText, callAction.Chunks)) =>
        (updated.err # "" /\ ~updated.panic)

\* two chunks that overlap inside the file: an error
C34_Witness ==
    /\ Called /\ Len(callAction.Chunks) = 2
    /\ EndOf(callAction.Chunks[2]) <= Len(callText)
    /\ callAction.Chunks[2].OrigIndex < EndOf(callAction.Chunks[1])
    /\ updated.err = "overlapping chunks" /\ ~updated.panic

(***************************************************************************)
(* Claims about the context matcher                                        *)
(***************************************************************************)
\* the context lies at index i of the lines, compared with eq
LiesAt(i, eq(_, _)) ==
    /\ i >= 0 /\ i + Len(fcContext) <= Len(fcLines)
    /\ eq(Slice(fcLines, i, i + Len(fcContext)), fcContext)

ExactAt(i) == LiesAt(i, slicesEqual)
RStripAt(i) == LiesAt(i, slicesEqualRStrip)
StripAt(i) == LiesAt(i, slicesEqualStrip)

Positions == 0..Len(fcLines)

\* the position of the tail of the file for the context
TailPos == IF Len(fcLines) - Len(fcContext) < 0 THEN 0 ELSE Len(fcLines) - Len(fcContext)

\* what the pass that matched added to the fuzz
PassFuzz == fcFound.fuzz % FuzzEOF

Matched == fcFound.called /\ fcFound.idx # -1

\* the fuzz tells the pass that found the returned match
FuzzTellsPass ==
    Matched =>
        /\ (~ExactAt(fcFound.idx) /\ RStripAt(fcFound.idx)) => PassFuzz = FuzzRStrip
        /\ (~RStripAt(fcFound.idx) /\ StripAt(fcFound.idx)) => PassFuzz = FuzzStrip

\* C35 as stated: for every line list, context, start position and EOF
\* flag: if an exact match of the context exists at or after start,
\* findContext returns an exact match; the returned fuzz is 0 if and only
\* if the returned match is exact; a match found only after right-trimming
\* adds 1 and one found only after full trimming adds 100.
C35_ExactPreferred ==
    fcFound.called =>
        /\ (\E i \in Positions : i >= fcStart /\ ExactAt(i)) => (Matched /\ ExactAt(fcFound.idx))
        /\ Matched => (fcFound.fuzz = 0 <=> ExactAt(fcFound.idx))
        /\ FuzzTellsPass

\* the index the first search of findContext starts at
SearchedFrom == IF fcEof THEN TailPos ELSE fcStart

\* C35, amended: without the EOF flag the statement holds as it stands.
\* With the EOF flag it holds with the tail position in place of start and
\* the fuzz taken modulo 10,000: an exact match at the tail is returned
\* with fuzz 0, and a match of the fallback search carries 10,000 on top of
\* the 0, 1 or 100 of the pass that found it.
C35_ExactPreferredFrom ==
    fcFound.called =>
        /\ (\E i \in Positions : i >= SearchedFrom /\ ExactAt(i))
              => (Matched /\ ExactAt(fcFound.idx) /\ fcFound.fuzz = 0)
        /\ Matched => (PassFuzz = 0 <=> ExactAt(fcFound.idx))
        /\ FuzzTellsPass
        /\ ~fcEof => fcFound.fuzz = PassFuzz
        /\ (fcEof /\ Matched) => fcFound.fuzz \in {PassFuzz, PassFuzz + FuzzEOF}

\* an exact match is returned although a line before it, at or after start,
\* matches when right-trimmed
C35_Witness ==
    /\ Matched /\ ~fcEof /\ fcStart > 0
    /\ ExactAt(fcFound.idx) /\ fcFound.fuzz = 0
    /\ \E j \in Positions : j >= fcStart /\ j < fcFound.idx /\ RStripAt(j) /\ ~ExactAt(j)

\* the context lies at the tail of the file, by one of the three passes
AtTail == Len(fcContext) <= Len(fcLines) /\ StripAt(Len(fcLines) - Len(fcContext))

\* C36: for a hunk anchored at the end of the file, a context that matches
\* at the exact tail of the file (position line count - len(context)) is
\* returned with fuzz at most 100; a context that matches only at another
\* position at or after start is returned with fuzz at least 10,000; a
\* context that matches nowhere yields index -1.
C36_EOFAnchored ==
    (fcFound.called /\ fcEof) =>
        /\ AtTail => (fcFound.idx = Len(fcLines) - Len(fcContext) /\ fcFound.fuzz <= FuzzStrip)
        /\ (~AtTail /\ \E i \in Positions : i >= fcStart /\ StripAt(i))
              => (Matched /\ fcFound.idx >= fcStart /\ StripAt(fcFound.idx)
                  /\ fcFound.fuzz >= FuzzEOF)
        /\ (~\E i \in Positions : StripAt(i)) => fcFound.idx = -1

\* the context is not at the tail and is found before it, when trimmed
C36_Witness ==
    /\ fcFound.called /\ fcEof /\ ~AtTail
    /\ Matched /\ fcFound.idx < TailPos
    /\ fcFound.fuzz = FuzzEOF + FuzzStrip

\* the context is at the tail, before start
C36_WitnessTail ==
    /\ fcFound.called /\ fcEof /\ AtTail /\ fcContext # <<>>
    /\ TailPos < fcStart /\ fcFound.idx = TailPos /\ fcFound.fuzz = FuzzRStrip

(***************************************************************************)
(* Claims about the auxiliary tasks                                        *)
(***************************************************************************)
Alive == {i \in 1..Len(streamers) : Running(i)}

\* C37: at every moment of toolCallChecker's execution at most one decoder
\* task of a ToolCallStreamer is alive: when a new streamer is created on
\* an id change, the decoder task of the previous streamer has already
\* terminated.
C37_OneDecoderAlive ==
    ~returned.done => Cardinality(Alive) <= 1

\* the second streamer was made after the task of the first had ended
C37_Witness ==
    /\ ~returned.done /\ Len(streamers) = 2
    /\ Alive = {2}
    /\ \E k \in 1..Len(Output) : Output[k].by = "decoder" /\ Output[k].s = 1

\* C38: the output consumer task exits if and only if the output channel
\* has been closed: it never exits while the channel is still open, and
\* after the channel is closed it drains the remaining strings and exits.
C38_ExitsIffClosed ==
    forwarder = "exited" => (rOutput.closed /\ rOutput.buf = <<>>)

\* the channel was closed with strings in it and the task took them all
\* before it exited
C38_Witness ==
    /\ forwarder = "exited" /\ ~ctxDone
    /\ rOutput.closed /\ rOutput.buf = <<>>
    /\ Forwarded(recorder) = MaxMsgs
    /\ runAt = "wait"


\* the tokens the decoder task of streamer i has taken from its pipe and
\* given to Stream
TakenBy(i) ==
    SubSeq(streamers[i].fed, 1,
           Len(streamers[i].fed) - Len(streamers[i].buf) - Len(streamers[i].pending))

\* the chunks Stream gives for the tokens toks, read in order from phase
RECURSIVE ChunksOf(_, _)
ChunksOf(phase, toks) ==
    IF toks = <<>> \/ phase = "stopped" THEN <<>>
    ELSE IF Stream(phase, Head(toks)).chunk = Nil
         THEN ChunksOf(Stream(phase, Head(toks)).phase, Tail(toks))
         ELSE <<Stream(phase, Head(toks)).chunk>>
                \o ChunksOf(Stream(phase, Head(toks)).phase, Tail(toks))

\* the strings the decoder task of streamer i sent, in the order of the
\* sends
RECURSIVE EmittedIn(_, _)
EmittedIn(out, i) ==
    IF out = <<>> THEN <<>>
    ELSE IF Head(out).by = "decoder" /\ Head(out).s = i
         THEN <<Head(out).str>> \o EmittedIn(Tail(out), i)
         ELSE EmittedIn(Tail(out), i)

ParserAgrees ==
    (psAt = "returned" /\ parser.Lines # <<>>) =>
        /\ psErr = parse(parser.Lines, parser.CurrentFiles).err
        /\ psErr = "" =>
             /\ parser.Actions = parse(parser.Lines, parser.CurrentFiles).actions
             /\ parser.Fuzz = parse(parser.Lines, parser.CurrentFiles).fuzz
             /\ parser.Index = parse(parser.Lines, parser.CurrentFiles).index

\* a step of the parser that is an iteration of one of the four loops, or
\* ends one, advances the index of that loop or makes parse return an error
Advances ==
    /\ parser'.Index >= parser.Index
    /\ (psAt = "parse" /\ psAt' # "returned") => parser'.Index > parser.Index
    /\ (psAt = "add" /\ psAt' = "add") => parser'.Index > parser.Index
    /\ (psAt = "peek" /\ psAt' = "peek") => psPeek'.index > psPeek.index
    /\ (psAt = "peek" /\ psAt' = "update") => parser'.Index > psUpd.from
    /\ (psAt # "returned" /\ psAt' = "returned") =>
          \/ psErr' # ""
          \/ psAt = "parse" /\ parser'.Index > parser.Index

\* C40: parsing terminates: every iteration of the loops of parse,
\* parseUpdateFile, parseAddFile and peekNextSection advances the line index
\* of its loop or returns an error, and parse returns in the end, with nil or
\* with an error
C40_ParsingTerminates == [][Advances]_vars /\ <>(psAt = "returned")

\* parse returned nil for a patch with an update whose hunk gave a chunk:
\* the loops of parse, parseUpdateFile and peekNextSection all ran
C40_Witness ==
    /\ psAt = "returned" /\ psErr = ""
    /\ \E path \in DOMAIN parser.Actions :
          /\ parser.Actions[path].Type = ActionUpdate
          /\ parser.Actions[path].Chunks # <<>>

====
